---- MODULE Spec2Model ----
(***************************************************************************)
(* A model of the BinDef binary applier (bindef/document.go) together with *)
(* the parts of the evaluator (bindef/eval.go, bindef/result.go) it calls. *)
(*                                                                         *)
(* ApplyBDF is modelled as a state machine that handles one top-level      *)
(* field of `binary` per step.  ParseFormatType and processType, which     *)
(* recurse through structs, arrays and inherited types, are RECURSIVE      *)
(* operators over an explicit record of the mutable state (the file        *)
(* handle's offset, the namespace, the `pos` slot of the `file` Map).      *)
(* Pure helpers (readInt, checkMagic, the enum member loop) also get small *)
(* specifications of their own whose initial states enumerate the inputs.  *)
(***************************************************************************)
EXTENDS Integers, Sequences, FiniteSets, TLC

VARIABLES
    doc,        \* the evaluated document handed to ApplyBDF
    file,       \* the bytes of the target file
    order,      \* the order in which this run's `range` over a Go map visits it
    pc,         \* position: "start", "loop", "done", "exit"; "idle" in helper specs
    idx,        \* index (1-based) of the next entry of binarySeq
    off,        \* current offset of the file handle
    ns,         \* the Namespace
    fpos,       \* the `pos` entry of the `file` Map created by ApplyBDF
    contents,   \* the MetaPairs collected so far
    ret,        \* what ApplyBDF returned: [pairs, err]
    last,       \* what the last loop iteration did (history, for the properties)
    input,      \* argument of a helper under test
    output      \* its result

vars == <<doc, file, order, pc, idx, off, ns, fpos, contents, ret, last, input, output>>

applierVars == <<doc, file, order, pc, idx, off, ns, fpos, contents, ret, last>>

helperVars == <<input, output>>

-----------------------------------------------------------------------------
(* Bounds of the model. *)

\* Files of arbitrary content (over FileBytes) have at most this many bytes.
MaxFileLen == 3

\* An array loop is cut off (and reported as "Diverged") after this many items.
MaxIter == 6

-----------------------------------------------------------------------------
(* Small utilities. *)

None == [k |-> "None"]

Min(a, b) == IF a < b THEN a ELSE b

Pad(s, n) == [i \in 1..n |-> IF i <= Len(s) THEN s[i] ELSE 0]

Reverse(s) == [i \in 1..Len(s) |-> s[Len(s) + 1 - i]]

SeqsUpTo(S, n) == UNION {[1..m -> S] : m \in 0..n}

\* Only({e(x) : x \in {v}}) is e(v) with v computed once, however often e
\* uses x: the way intermediate results are held in the operators below.
Only(S) == CHOOSE x \in S : TRUE

-----------------------------------------------------------------------------
(* The file handle (os.File): a byte sequence and an offset.  Read(buf)    *)
(* fills a zeroed buffer with the bytes that are left, returns io.EOF only *)
(* when the buffer is not empty and no byte is left.                       *)

HandleRead(bytes, offset, n) ==
    LET avail == IF offset >= Len(bytes) THEN 0 ELSE Min(n, Len(bytes) - offset)
        got == [i \in 1..avail |-> bytes[offset + i]]
    IN  [eof |-> (n > 0 /\ avail = 0),
         n |-> avail,
         buf |-> Pad(got, n),
         off |-> offset + avail]

\* a seek that takes every offset as relative to the current one
HandleSeekFromCurrent(bytes, offset, delta, whence) ==
    IF offset + delta < 0 THEN [ok |-> FALSE, off |-> offset]
    ELSE [ok |-> TRUE, off |-> offset + delta]

\* handle.Seek(delta, whence), whence one of "start" (io.SeekStart),
\* "current" (io.SeekCurrent) and "end" (io.SeekEnd).  A negative resulting
\* offset is an error and leaves the offset alone.
HandleSeek(bytes, offset, delta, whence) ==
    LET target == CASE whence = "start" -> delta
                    [] whence = "current" -> offset + delta
                    [] OTHER -> Len(bytes) + delta
    IN  IF target < 0 THEN [ok |-> FALSE, off |-> offset]
        ELSE [ok |-> TRUE, off |-> target]

-----------------------------------------------------------------------------
(* Arbitrary-precision integers (math/big) as sign and magnitude, the      *)
(* magnitude a big-endian sequence of base-256 digits without leading      *)
(* zeros.  Fixed 64-bit words are 8-digit sequences.                       *)

StripZeros(s) ==
    LET nz == {i \in 1..Len(s) : s[i] # 0}
    IN  IF nz = {} THEN <<>>
        ELSE LET f == CHOOSE i \in nz : \A j \in nz : i <= j
             IN  [i \in 1..(Len(s) - f + 1) |-> s[f + i - 1]]

\* Magnitude comparison: -1, 0, 1.
RECURSIVE MagCmpFrom(_, _, _)
MagCmpFrom(a, b, i) ==
    IF i > Len(a) THEN 0
    ELSE IF a[i] < b[i] THEN -1
    ELSE IF a[i] > b[i] THEN 1
    ELSE MagCmpFrom(a, b, i + 1)

MagCmp(a, b) ==
    IF Len(a) < Len(b) THEN -1
    ELSE IF Len(a) > Len(b) THEN 1
    ELSE MagCmpFrom(a, b, 1)

\* Two's complement negation of a fixed-width word (big-endian digits).
RECURSIVE IncFrom(_, _)
IncFrom(w, i) ==
    IF i = 0 THEN w
    ELSE IF w[i] = 255 THEN IncFrom([w EXCEPT ![i] = 0], i - 1)
    ELSE [w EXCEPT ![i] = w[i] + 1]

WordNeg(w) == IncFrom([i \in 1..Len(w) |-> 255 - w[i]], Len(w))

Big(neg, mag) == [neg |-> neg, mag |-> mag]

\* big.NewInt(int64(u)) for an unsigned value u narrower than 64 bits.
BigFromUnsigned(w) == Big(FALSE, StripZeros(w))

\* big.NewInt(int64(u)) for a uint64 u: the conversion reinterprets the word
\* as signed.
BigFromInt64Bits(w) ==
    IF w[1] >= 128 THEN Big(TRUE, StripZeros(WordNeg(w)))
    ELSE Big(FALSE, StripZeros(w))

\* 2^(8n-1) as a magnitude, and 2^(8n-1) - 1.
PowHalf(n) == [i \in 1..n |-> IF i = 1 THEN 128 ELSE 0]

PowHalfMinus1(n) == [i \in 1..n |-> IF i = 1 THEN 127 ELSE 255]

AllOnes(n) == [i \in 1..n |-> 255]

\* The value of a magnitude of at most 3 digits as a number.
RECURSIVE MagToNat(_)
MagToNat(m) ==
    IF m = <<>> THEN 0
    ELSE MagToNat(SubSeq(m, 1, Len(m) - 1)) * 256 + m[Len(m)]

BigToInt(b) == IF b.neg THEN 0 - MagToNat(b.mag) ELSE MagToNat(b.mag)

-----------------------------------------------------------------------------
(* Integer types (result.go) and readInt (document.go).                    *)

UnsignedTypes == {"uint8", "uint16", "uint24", "uint32", "uint64"}

SignedTypes == {"int8", "int16", "int24", "int32", "int64"}

IntTypes == UnsignedTypes \cup SignedTypes

FloatTypes == {"float32", "float64"}

AvailableNumericTypes == IntTypes \cup FloatTypes

AvailableTypeNames ==
    {"magic", "bool", "byte", "struct", "array", "var", "enum"} \cup AvailableNumericTypes

NumBytes(type) ==
    CASE type \in {"uint8", "int8"} -> 1
      [] type \in {"uint16", "int16"} -> 2
      [] type \in {"uint24", "int24"} -> 3
      [] type \in {"uint32", "int32"} -> 4
      [] type \in {"uint64", "int64"} -> 8
      [] OTHER -> 0

\* The bounds table: is the big integer b within the range of `bound`?
IntegerInBounds(bound, b) ==
    LET n == NumBytes(bound)
    IN  IF bound \in UnsignedTypes
        THEN (~b.neg \/ b.mag = <<>>) /\ MagCmp(b.mag, AllOnes(n)) <= 0
        ELSE IF b.neg THEN MagCmp(b.mag, PowHalf(n)) <= 0
             ELSE MagCmp(b.mag, PowHalfMinus1(n)) <= 0

\* The value readInt builds from the numBytes-long buffer it read into.
\* Every width below 64 goes through an unsigned conversion (int64 of a byte,
\* of Uint16, of the hand-assembled 24 bits, of Uint32); the 64-bit width
\* goes through int64(Uint64).
IntFromBuffer(type, endian, buf) ==
    LET be == IF endian = "big" \/ NumBytes(type) = 1 THEN buf ELSE Reverse(buf)
    IN  IF NumBytes(type) = 8 THEN BigFromInt64Bits(be) ELSE BigFromUnsigned(be)

\* readInt: [err, val, off].  err is "none", "EOF" or "NotInt" (unknown type,
\* or a multi-byte type whose endian is neither "little" nor "big").
readInt(bytes, offset, type, endian) ==
    IF type \notin IntTypes
    THEN [err |-> "NotInt", val |-> Big(FALSE, <<>>), off |-> offset]
    ELSE LET r == HandleRead(bytes, offset, NumBytes(type))
         IN  IF r.eof THEN [err |-> "EOF", val |-> Big(FALSE, <<>>), off |-> r.off]
             ELSE IF NumBytes(type) > 1 /\ endian \notin {"little", "big"}
             THEN [err |-> "NotInt", val |-> Big(FALSE, <<>>), off |-> r.off]
             ELSE [err |-> "none", val |-> IntFromBuffer(type, endian, r.buf), off |-> r.off]

-----------------------------------------------------------------------------
(* Results (result.go).  A Result is a record tagged with its kind in k.   *)
(* Strings are sequences of byte values.  The Map that ApplyBDF creates    *)
(* for `file` is a Go map shared by reference between a namespace and its  *)
(* copies: it is the value FileRef, and its `pos` entry is kept apart (the *)
(* fp component of the state).  A Map of the document that describes a     *)
(* field is a record tagged "FormatMap" (see DefaultField).                *)

IntV(n) == [k |-> "Int", v |-> n]

StrV(s) == [k |-> "String", v |-> s]

BoolV(b) == [k |-> "Boolean", v |-> b]

IdentV(s) == [k |-> "Ident", v |-> s]

ListV(s) == [k |-> "List", v |-> s]

MapV(f) == [k |-> "Map", v |-> f]

FloatV(bits) == [k |-> "Float", v |-> bits]

\* The FloatResult of a decimal literal: the whole part and the digits of
\* the fraction without trailing zeros.
FloatLit(whole, frac) == [k |-> "Float", v |-> <<>>, whole |-> whole, frac |-> frac]

IsFloatLit(x) == x.k = "Float" /\ "whole" \in DOMAIN x

\* The FloatResult of an arithmetic operation: the number num / den, den
\* positive.  (The values of the model are small enough for the float64
\* nearest to each of them to tell them apart.)
FloatQ(num, den) == [k |-> "Float", v |-> <<>>, num |-> num, den |-> den]

IsFloatQ(x) == x.k = "Float" /\ "num" \in DOMAIN x

TypeV(name, param) == [k |-> "Type", name |-> name, param |-> param]

LazyV(e) == [k |-> "Lazy", e |-> e]

FileRef == [k |-> "FileRef"]

\* An error value.  kind names the failure; id, val and off carry what the
\* message or the error struct holds (ErrMagic.Offset, the id and value of a
\* failed validation).  src is history, not part of the Go value: it is
\* "checkMagic" for an error that checkMagic returned and "" otherwise.
Error(kind, id, val, offset) ==
    [k |-> "Error", kind |-> kind, id |-> id, val |-> val, off |-> offset, src |-> ""]

FromCheckMagic(e) == [e EXCEPT !.src = "checkMagic"]

Err(kind) == Error(kind, "", None, 0)

IsErr(x) == x.k = "Error"

\* Result.Kind()
KindOf(x) == IF x.k \in {"FileRef", "FormatMap"} THEN "Map" ELSE x.k

EmptyMap == [x \in {} |-> None]

\* A Map whose keys are not all identifiers: its [key, val] entries.
CasesV(entries) == [k |-> "Map", entries |-> entries, v |-> EmptyMap]

\* m[key] = value on a Go map held by value.
Bind(f, id, v) == [x \in (DOMAIN f) \cup {id} |-> IF x = id THEN v ELSE f[x]]

\* "start", "end", "current" as byte strings.
StartStr == <<115, 116, 97, 114, 116>>

EndStr == <<101, 110, 100>>

CurrentStr == <<99, 117, 114, 114, 101, 110, 116>>

-----------------------------------------------------------------------------
(* The mutable state a field is processed against: the handle's offset,    *)
(* the namespace (a function from identifiers to Results), fp (the `pos`   *)
(* entry of the shared `file` Map) and gen, which counts the rebindings of *)
(* the key `file` in this namespace (so that a write through a stale       *)
(* reference to the Map can be told from a write to the bound Map).        *)

State(o, n, fp, gen) == [off |-> o, ns |-> n, fp |-> fp, gen |-> gen]

\* ns[IdentResult(id)] = v
BindNs(st, id, v) ==
    [st EXCEPT !.ns = Bind(st.ns, id, v),
               !.gen = IF id = "file" THEN st.gen + 1 ELSE st.gen]

\* map[IdentResult(id)] for a Result of kind Map; None when the key is absent.
MapGet(m, id, fp) ==
    CASE m.k = "FileRef" -> IF id = "pos" THEN IntV(fp) ELSE None
      [] m.k = "Map" -> IF id \in DOMAIN m.v THEN m.v[id] ELSE None
      [] m.k = "FormatMap" -> IF id = "pos" THEN m.pos ELSE None
      [] OTHER -> None

\* namespace["file"]["pos"], or None when there is no such entry.
NsFilePos(st) ==
    IF "file" \notin DOMAIN st.ns THEN None
    ELSE IF KindOf(st.ns["file"]) # "Map" THEN None
    ELSE MapGet(st.ns["file"], "pos", st.fp)

-----------------------------------------------------------------------------
(* The evaluator (eval.go) on the expressions the documents use.  An       *)
(* expression is a record: [op |-> "lit", val], [op |-> "ident", id],      *)
(* [op |-> "attr", obj, id], [op |-> "sub", obj, item],                    *)
(* [op |-> "bin", f, l, r] with f one of "==", "!=", "<", "+", "-".        *)

Lit(v) == [op |-> "lit", val |-> v]

Id(s) == [op |-> "ident", id |-> s]

Attr(e, s) == [op |-> "attr", obj |-> e, id |-> s]

Sub(e, i) == [op |-> "sub", obj |-> e, item |-> i]

Bin(f, l, r) == [op |-> "bin", f |-> f, l |-> l, r |-> r]

-----------------------------------------------------------------------------
(* The lexer (lexer.go).  A source is a sequence of characters, each a     *)
(* one-character string (NUL and BSL stand for the byte 0 and for the      *)
(* backslash).  Positions count from 0 as in the Scanner, which holds     *)
(* the source in a slice whose capacity may exceed its length: Peek, a slice expression, panics only   *)
(* beyond the capacity and reads the bytes between length and capacity,    *)
(* which are zero; Cursor, an index expression, panics beyond the length.  *)

NUL == "NUL"

\* the backslash
BSL == "BSL"

\* the printable characters from the space (byte 32) to the tilde (byte
\* 126) in the order of their byte values; GRAVE stands for the grave accent
Printable ==
    <<" ", "!", "\"", "#", "$", "%", "&", "'", "(", ")", "*", "+", ",", "-", ".", "/",
      "0", "1", "2", "3", "4", "5", "6", "7", "8", "9", ":", ";", "<", "=", ">", "?",
      "@", "A", "B", "C", "D", "E", "F", "G", "H", "I", "J", "K", "L", "M", "N", "O",
      "P", "Q", "R", "S", "T", "U", "V", "W", "X", "Y", "Z", "[", BSL, "]", "^", "_",
      "GRAVE", "a", "b", "c", "d", "e", "f", "g", "h", "i", "j", "k", "l", "m", "n", "o",
      "p", "q", "r", "s", "t", "u", "v", "w", "x", "y", "z", "{", "|", "}", "~">>

\* the byte value of each character
Ord ==
    [ch \in {Printable[i] : i \in 1..95} \cup {NUL, "\t", "\n", "\r"} |->
        CASE ch = NUL -> 0
          [] ch = "\t" -> 9
          [] ch = "\n" -> 10
          [] ch = "\r" -> 13
          [] OTHER -> 31 + CHOOSE i \in 1..95 : Printable[i] = ch]

Digits == <<"0", "1", "2", "3", "4", "5", "6", "7", "8", "9">>

Letters ==
    {"a", "b", "c", "d", "e", "f", "g", "h", "i", "j", "k", "l", "m", "n", "o", "p", "q",
     "r", "s", "t", "u", "v", "w", "x", "y", "z", "A", "B", "C", "D", "E", "F", "G", "H",
     "I", "J", "K", "L", "M", "N", "O", "P", "Q", "R", "S", "T", "U", "V", "W", "X", "Y", "Z"}

IsASCIILetter(ch) == ch \in Letters

IsASCIIDigit(ch) == \E i \in 1..10 : Digits[i] = ch

IsIdentifier(ch) == IsASCIILetter(ch) \/ IsASCIIDigit(ch) \/ ch = "_" \/ ch = "-"

IsStartOfIdentifier(ch) == IsASCIILetter(ch) /\ ~IsASCIIDigit(ch) /\ ch # "-"

HexLower ==
    <<"0", "1", "2", "3", "4", "5", "6", "7", "8", "9", "a", "b", "c", "d", "e", "f">>

HexUpper == <<"A", "B", "C", "D", "E", "F">>

\* The value of ch as a digit of the base (up to 16), -1 when it is none.
DigitVal(ch, base) ==
    Only({IF v < base THEN v ELSE -1 :
          v \in {IF \E i \in 1..16 : HexLower[i] = ch
                 THEN (CHOOSE i \in 1..16 : HexLower[i] = ch) - 1
                 ELSE IF \E i \in 1..6 : HexUpper[i] = ch
                 THEN (CHOOSE i \in 1..6 : HexUpper[i] = ch) + 9
                 ELSE -1}})

\* the number that a sequence of digit values denotes in the base
RECURSIVE DigitsNum(_, _)
DigitsNum(d, base) ==
    IF d = <<>> THEN 0 ELSE DigitsNum(SubSeq(d, 1, Len(d) - 1), base) * base + d[Len(d)]

\* the number a sequence of valid digits denotes
DigitsVal(s, base) == DigitsNum([i \in 1..Len(s) |-> DigitVal(s[i], base)], base)

AllDigits(s, base) == s # <<>> /\ \A i \in 1..Len(s) : DigitVal(s[i], base) >= 0

\* strconv.ParseInt(s, base, 8) for an explicit base: an optional sign, then
\* digits of the base; the value must fit a signed 8-bit integer.
ParseInt8(s, base) ==
    LET signed == s # <<>> /\ s[1] \in {"+", "-"}
        digits == IF signed THEN SubSeq(s, 2, Len(s)) ELSE s
        mag == DigitsVal(digits, base)
        val == IF signed /\ s[1] = "-" THEN 0 - mag ELSE mag
    IN  IF ~AllDigits(digits, base) THEN [ok |-> FALSE, val |-> 0]
        ELSE IF val < -128 \/ val > 127 THEN [ok |-> FALSE, val |-> 0]
        ELSE [ok |-> TRUE, val |-> val]

Token(kind, value, bytes, start, end) ==
    [Kind |-> kind, Value |-> value, Bytes |-> bytes, Start |-> start, End |-> end]

\* Scanner.Cursor and Scanner.Peek at position cur; cap is the capacity.
Cursor(src, cur) == src[cur + 1]

CanPeek(src, cap, cur, n) == cur + 1 + n <= cap

Peek(src, cur, n) == [i \in 1..n |-> IF cur + 1 + i <= Len(src) THEN src[cur + 1 + i] ELSE NUL]

IsNumeric(ch) == IsASCIIDigit(ch) \/ ch = "."

NotNewline(ch) == ch # "\n"

\* Is ch in the class of characters that a scanning loop runs over?
InClass(ch, class) ==
    CASE class = "numeric" -> IsNumeric(ch)
      [] class = "identifier" -> IsIdentifier(ch)
      [] OTHER -> NotNewline(ch)

\* The end of the run of characters of the class, from position cur.
RECURSIVE RunEnd(_, _, _)
RunEnd(src, cur, class) ==
    IF cur < Len(src) /\ InClass(Cursor(src, cur), class) THEN RunEnd(src, cur + 1, class)
    ELSE cur

LexNumeric(src, start) ==
    LET end == RunEnd(src, start + 1, "numeric")
        digits == SubSeq(src, start + 1, end)
    IN  Token(IF \E i \in 1..Len(digits) : digits[i] = "." THEN "Float" ELSE "Integer",
              digits, <<>>, start, end)

LexIdentifier(src, start) ==
    LET end == RunEnd(src, start + 1, "identifier")
        ident == SubSeq(src, start + 1, end)
    IN  Token(IF ident \in {<<"t", "r", "u", "e">>, <<"f", "a", "l", "s", "e">>}
              THEN "Keyword" ELSE "Identifier",
              ident, <<>>, start, end)

escapeMap ==
    [ch \in {BSL, "'", "\"", "n", "r", "t"} |->
        CASE ch = BSL -> 92
          [] ch = "'" -> 39
          [] ch = "\"" -> 34
          [] ch = "n" -> 10
          [] ch = "r" -> 13
          [] OTHER -> 9]

LexError(msg, start, end) == [k |-> "LangError", msg |-> msg, Start |-> start, End |-> end]

LexPanic == [k |-> "Panic"]

\* The loop of LexString from position cur: a Token, a LangError or a panic.
RECURSIVE LexStringLoop(_, _, _, _, _, _)
LexStringLoop(src, cap, start, delimiter, cur, strSeq) ==
    IF cur >= Len(src) THEN LexError("string was never closed", start, cur)
    ELSE IF Cursor(src, cur) = BSL THEN
        IF cur + 1 >= Len(src) THEN LexPanic
        ELSE LET nc == Cursor(src, cur + 1)
             IN  IF nc \in DOMAIN escapeMap
                 THEN LexStringLoop(src, cap, start, delimiter, cur + 2,
                                    Append(strSeq, escapeMap[nc]))
                 ELSE IF nc = "x" THEN
                     IF ~CanPeek(src, cap, cur + 1, 2) THEN LexPanic
                     ELSE LET hexVal == ParseInt8(Peek(src, cur + 1, 2), 16)
                          IN  IF ~hexVal.ok
                              THEN LexError("invalid hex sequence", cur, cur + 3)
                              ELSE LexStringLoop(src, cap, start, delimiter, cur + 4,
                                                 Append(strSeq, hexVal.val % 256))
                 ELSE IF IsASCIIDigit(nc) THEN
                     IF ~CanPeek(src, cap, cur + 1, 2) THEN LexPanic
                     ELSE LET octVal == ParseInt8(<<nc>> \o Peek(src, cur + 1, 2), 8)
                          IN  IF ~octVal.ok
                              THEN LexError("invalid octal sequence", cur, cur + 4)
                              ELSE LexStringLoop(src, cap, start, delimiter, cur + 4,
                                                 Append(strSeq, octVal.val % 256))
                 ELSE LexError("unknown escape sequence", cur, cur + 1)
    ELSE IF Cursor(src, cur) = delimiter
    THEN Token("String", <<>>, strSeq, start, cur + 1)
    ELSE LexStringLoop(src, cap, start, delimiter, cur + 1,
                       Append(strSeq, Ord[Cursor(src, cur)]))

LexString(src, cap, start, delimiter) ==
    LexStringLoop(src, cap, start, delimiter, start + 1, <<>>)

\* the tokens of one character that need no look at the next one
singleKinds ==
    [ch \in {"(", ")", "{", "}", "[", "]", ",", ":", "@", ".", "+", "-", "%", "^", "~"} |->
        CASE ch = "(" -> "LParen"
          [] ch = ")" -> "RParen"
          [] ch = "{" -> "LBrace"
          [] ch = "}" -> "RBrace"
          [] ch = "[" -> "LBracket"
          [] ch = "]" -> "RBracket"
          [] ch = "," -> "Comma"
          [] ch = ":" -> "Colon"
          [] ch = "@" -> "At"
          [] ch = "." -> "Dot"
          [] ch = "+" -> "Plus"
          [] ch = "-" -> "Minus"
          [] ch = "%" -> "Modulo"
          [] ch = "^" -> "BitwiseXor"
          [] OTHER -> "BitwiseNot"]

\* the cases of Process that look at the next character: the kind of the
\* two-character token for each next character that makes one, and the kind
\* and the span length of the default branch
peekKinds ==
    [ch \in {"=", ">", "<", "*", "!", "|", "&"} |->
        CASE ch = "=" -> [two |-> [nc \in {"="} |-> "Equals"], kind |-> "Assign", len |-> 1]
          [] ch = ">" -> [two |-> [nc \in {"=", ">"} |->
                                     IF nc = "=" THEN "GtEq" ELSE "BitwiseRight"],
                          kind |-> "Gt", len |-> 1]
          [] ch = "<" -> [two |-> [nc \in {"=", "<"} |->
                                     IF nc = "=" THEN "LtEq" ELSE "BitwiseLeft"],
                          kind |-> "Lt", len |-> 1]
          [] ch = "*" -> [two |-> [nc \in {"*"} |-> "Pow"], kind |-> "Mul", len |-> 1]
          [] ch = "!" -> [two |-> [nc \in {"="} |-> "NotEq"], kind |-> "Not", len |-> 2]
          [] ch = "|" -> [two |-> [nc \in {"|"} |-> "LogicalOr"],
                          kind |-> "BitwiseOr", len |-> 2]
          [] OTHER -> [two |-> [nc \in {"&"} |-> "LogicalAnd"],
                       kind |-> "BitwiseAnd", len |-> 2]]

Lexed(err, tokens) == [err |-> err, Tokens |-> tokens]

\* Lexer.Process from position cur on: [err, Tokens], err None, a LangError
\* or a panic.
RECURSIVE ProcessLoop(_, _, _, _)
ProcessLoop(src, cap, cur, tokens) ==
    IF cur >= Len(src) THEN Lexed(None, tokens)
    ELSE LET ch == Cursor(src, cur)
         IN  CASE ch \in DOMAIN singleKinds ->
                    ProcessLoop(src, cap, cur + 1,
                                Append(tokens, Token(singleKinds[ch], <<ch>>, <<>>, cur, cur + 1)))
               [] ch \in DOMAIN peekKinds ->
                    IF ~CanPeek(src, cap, cur, 1) THEN Lexed(LexPanic, tokens)
                    ELSE LET nc == Peek(src, cur, 1)[1]
                             c == peekKinds[ch]
                         IN  IF nc \in DOMAIN c.two
                             THEN ProcessLoop(src, cap, cur + 2,
                                      Append(tokens, Token(c.two[nc], <<ch, nc>>, <<>>, cur, cur + 2)))
                             ELSE ProcessLoop(src, cap, cur + 1,
                                      Append(tokens, Token(c.kind, <<ch>>, <<>>, cur, cur + c.len)))
               [] ch = "/" ->
                    IF ~CanPeek(src, cap, cur, 1) THEN Lexed(LexPanic, tokens)
                    ELSE IF Peek(src, cur, 1)[1] = "/"
                    THEN ProcessLoop(src, cap, RunEnd(src, cur, "comment") + 1, tokens)
                    ELSE ProcessLoop(src, cap, cur + 1,
                                     Append(tokens, Token("Div", <<ch>>, <<>>, cur, cur + 1)))
               [] ch \in {"'", "\""} ->
                    LET strTok == LexString(src, cap, cur, ch)
                    IN  IF "Kind" \notin DOMAIN strTok THEN Lexed(strTok, tokens)
                        ELSE ProcessLoop(src, cap, strTok.End, Append(tokens, strTok))
               [] IsStartOfIdentifier(ch) ->
                    LET tok == LexIdentifier(src, cur)
                    IN  ProcessLoop(src, cap, tok.End, Append(tokens, tok))
               [] IsASCIIDigit(ch) ->
                    LET tok == LexNumeric(src, cur)
                    IN  ProcessLoop(src, cap, tok.End, Append(tokens, tok))
               [] OTHER -> ProcessLoop(src, cap, cur + 1, tokens)

Process(src, cap) == ProcessLoop(src, cap, 0, <<>>)

-----------------------------------------------------------------------------
(* The parser (Parser over a Scanner of tokens).  Each parsing method is   *)
(* an operator of the tokens and the scanner's position that yields        *)
(* [err, node, pos]: err is None, a LangError or a panic (Cursor read at   *)
(* the end of the tokens), node the tree and pos the position afterwards.  *)
(* A literal node holds its token; operators, attribute names and callee   *)
(* arguments are held as in the constructors above, an operator by its     *)
(* text.  The Items of a MapNode, a Go map keyed by node pointers, are the *)
(* sequence of its [key, val] entries in source order.                     *)

\* the text of a token as a string
RECURSIVE Str(_)
Str(chars) == IF chars = <<>> THEN "" ELSE chars[1] \o Str(Tail(chars))

LiteralNode(tok) == [op |-> "literal", tok |-> tok]

UnaryOpNode(tok, node) == [op |-> "unary", f |-> Str(tok.Value), e |-> node]

BinOpNode(left, tok, right) == Bin(Str(tok.Value), left, right)

MapNode(items) == [op |-> "map", items |-> items]

ListNode(items) == [op |-> "list", items |-> items]

AttrNode(expr, tok) == Attr(expr, Str(tok.Value))

SubscriptNode(expr, item) == Sub(expr, item)

CallNode(expr, arguments) == [op |-> "call", e |-> expr, args |-> arguments]

ParseResult(err, node, pos) == [err |-> err, node |-> node, pos |-> pos]

ParseError(msg) == [k |-> "LangError", msg |-> msg]

ParsePanic == ParseResult([k |-> "Panic"], None, 0)

IsDone(toks, pos) == pos >= Len(toks)

\* !ps.IsDone() && ps.Cursor().Kind is one of kinds
AtKind(toks, pos, kinds) == ~IsDone(toks, pos) /\ Cursor(toks, pos).Kind \in kinds

FactorOps == {"Mul", "Div", "Modulo", "BitwiseLeft", "BitwiseRight", "BitwiseAnd"}

ExprOps == {"Plus", "Minus", "BitwiseOr", "BitwiseXor"}

ComparisonOps == {"Equals", "NotEq", "Lt", "LtEq", "Gt", "GtEq"}

RECURSIVE tryPostfix(_, _, _)
RECURSIVE ParseArguments(_, _, _)
RECURSIVE ParseMapItems(_, _, _)
RECURSIVE ParseListItems(_, _, _)
RECURSIVE ParseMapValue(_, _, _)
RECURSIVE ParseLiteral(_, _)
RECURSIVE ParseFactorLoop(_, _, _)
RECURSIVE ParseExprLoop(_, _, _)
RECURSIVE ParseExpr(_, _)

tryPostfix(toks, left, pos) ==
    IF IsDone(toks, pos) THEN ParseResult(None, left, pos)
    ELSE CASE Cursor(toks, pos).Kind = "LBracket" ->
                Only({IF item.err # None THEN item
                      ELSE IF ~AtKind(toks, item.pos, {"RBracket"})
                      THEN ParseResult(
                               ParseError("expected closing bracket for subscript access"),
                               None, item.pos)
                      ELSE tryPostfix(toks, SubscriptNode(left, item.node), item.pos + 1) :
                      item \in {ParseExpr(toks, pos + 1)}})
           [] Cursor(toks, pos).Kind = "LParen" ->
                Only({IF a.err # None THEN a
                      ELSE tryPostfix(toks, CallNode(left, a.node), a.pos + 1) :
                      a \in {ParseArguments(toks, pos + 1, <<>>)}})
           [] Cursor(toks, pos).Kind = "Dot" ->
                IF ~AtKind(toks, pos + 1, {"Identifier"})
                THEN ParseResult(ParseError("expected identifier after dot"), None, pos + 1)
                ELSE tryPostfix(toks, AttrNode(left, Cursor(toks, pos + 1)), pos + 2)
           [] OTHER -> ParseResult(None, left, pos)

\* The loop over the arguments of a call and the read of the closing paren
\* after it: node holds the arguments, pos is the position of the paren.
ParseArguments(toks, pos, arguments) ==
    IF IsDone(toks, pos) THEN ParsePanic
    ELSE IF Cursor(toks, pos).Kind = "RParen" THEN ParseResult(None, arguments, pos)
    ELSE Only({IF arg.err # None THEN arg
               ELSE IF IsDone(toks, arg.pos) THEN ParsePanic
               ELSE IF Cursor(toks, arg.pos).Kind = "Comma"
               THEN ParseArguments(toks, arg.pos + 1, Append(arguments, arg.node))
               ELSE IF Cursor(toks, arg.pos).Kind # "RParen"
               THEN ParseResult(ParseError("expected closing paren in argument list"),
                                None, arg.pos)
               ELSE ParseArguments(toks, arg.pos, Append(arguments, arg.node)) :
               arg \in {ParseExpr(toks, pos)}})

\* The value of an entry of a mapping, after its key and colon.
ParseMapValue(toks, key, items) ==
    Only({IF value.err # None THEN value
          ELSE IF AtKind(toks, value.pos, {"Comma"})
          THEN ParseMapItems(toks, value.pos + 1,
                             Append(items, [key |-> key.node, val |-> value.node]))
          ELSE IF ~AtKind(toks, value.pos, {"RBrace"})
          THEN ParseResult(ParseError("expected closing brace for mapping"), None, value.pos)
          ELSE ParseMapItems(toks, value.pos,
                             Append(items, [key |-> key.node, val |-> value.node])) :
          value \in {ParseExpr(toks, key.pos + 1)}})

\* The loop over the entries of a mapping and the read of the closing brace.
ParseMapItems(toks, pos, items) ==
    IF IsDone(toks, pos) THEN ParsePanic
    ELSE IF Cursor(toks, pos).Kind = "RBrace" THEN ParseResult(None, items, pos)
    ELSE Only({IF key.err # None THEN key
               ELSE IF ~AtKind(toks, key.pos, {"Colon"})
               THEN ParseResult(ParseError("expected colon after key in mapping"),
                                None, key.pos)
               ELSE ParseMapValue(toks, key, items) :
               key \in {ParseExpr(toks, pos)}})

\* The loop over the items of a list and the read of the closing bracket.
ParseListItems(toks, pos, items) ==
    IF IsDone(toks, pos) THEN ParsePanic
    ELSE IF Cursor(toks, pos).Kind = "RBracket" THEN ParseResult(None, items, pos)
    ELSE Only({IF item.err # None THEN item
               ELSE IF AtKind(toks, item.pos, {"Comma"})
               THEN ParseListItems(toks, item.pos + 1, Append(items, item.node))
               ELSE IF ~AtKind(toks, item.pos, {"RBracket"})
               THEN ParseResult(ParseError("expected closing bracket or comma for list"),
                                None, item.pos)
               ELSE ParseListItems(toks, item.pos, Append(items, item.node)) :
               item \in {ParseExpr(toks, pos)}})

\* ParseLiteral at the token tok
ParseLiteralAt(toks, pos, tok) ==
    CASE tok.Kind \in {"Integer", "Float", "Identifier", "String", "Keyword"} ->
            tryPostfix(toks, LiteralNode(tok), pos + 1)
      [] tok.Kind \in {"Plus", "Minus", "BitwiseNot", "Not"} ->
            Only({IF expr.err # None THEN expr
                  ELSE tryPostfix(toks, UnaryOpNode(tok, expr.node), expr.pos) :
                  expr \in {ParseExpr(toks, pos + 1)}})
      [] tok.Kind = "LParen" ->
            Only({IF expr.err # None THEN expr
                  ELSE IF ~AtKind(toks, expr.pos, {"RParen"})
                  THEN ParseResult(ParseError("expected closing parenthesis"), None, expr.pos)
                  ELSE tryPostfix(toks, expr.node, expr.pos + 1) :
                  expr \in {ParseExpr(toks, pos + 1)}})
      [] tok.Kind = "LBrace" ->
            Only({IF m.err # None THEN m
                  ELSE tryPostfix(toks, MapNode(m.node), m.pos + 1) :
                  m \in {ParseMapItems(toks, pos + 1, <<>>)}})
      [] tok.Kind = "LBracket" ->
            Only({IF l.err # None THEN l
                  ELSE tryPostfix(toks, ListNode(l.node), l.pos + 1) :
                  l \in {ParseListItems(toks, pos + 1, <<>>)}})
      [] OTHER -> ParseResult(ParseError("unknown literal type"), None, pos)

ParseLiteral(toks, pos) ==
    IF IsDone(toks, pos) THEN ParsePanic ELSE ParseLiteralAt(toks, pos, Cursor(toks, pos))

\* One more operand of a chain of binary operators of one level: the operand
\* right that the method of the next level parsed after the operator at pos.
Chained(toks, left, pos, right) == BinOpNode(left, Cursor(toks, pos), right.node)

ParseFactorLoop(toks, left, pos) ==
    IF ~AtKind(toks, pos, FactorOps) THEN ParseResult(None, left, pos)
    ELSE Only({IF right.err # None THEN right
               ELSE ParseFactorLoop(toks, Chained(toks, left, pos, right), right.pos) :
               right \in {ParseLiteral(toks, pos + 1)}})

ParseFactor(toks, pos) ==
    Only({IF left.err # None THEN left ELSE ParseFactorLoop(toks, left.node, left.pos) :
          left \in {ParseLiteral(toks, pos)}})

ParseExprLoop(toks, left, pos) ==
    IF ~AtKind(toks, pos, ExprOps) THEN ParseResult(None, left, pos)
    ELSE Only({IF right.err # None THEN right
               ELSE ParseExprLoop(toks, Chained(toks, left, pos, right), right.pos) :
               right \in {ParseFactor(toks, pos + 1)}})

ParseExpr(toks, pos) ==
    Only({IF left.err # None THEN left ELSE ParseExprLoop(toks, left.node, left.pos) :
          left \in {ParseFactor(toks, pos)}})

RECURSIVE ParseComparisonLoop(_, _, _)
ParseComparisonLoop(toks, left, pos) ==
    IF ~AtKind(toks, pos, ComparisonOps) THEN ParseResult(None, left, pos)
    ELSE Only({IF right.err # None THEN right
               ELSE ParseComparisonLoop(toks, Chained(toks, left, pos, right), right.pos) :
               right \in {ParseExpr(toks, pos + 1)}})

ParseComparison(toks, pos) ==
    Only({IF left.err # None THEN left ELSE ParseComparisonLoop(toks, left.node, left.pos) :
          left \in {ParseExpr(toks, pos)}})

RECURSIVE ParseLogicalAndLoop(_, _, _)
ParseLogicalAndLoop(toks, left, pos) ==
    IF ~AtKind(toks, pos, {"LogicalAnd"}) THEN ParseResult(None, left, pos)
    ELSE Only({IF right.err # None THEN right
               ELSE ParseLogicalAndLoop(toks, Chained(toks, left, pos, right), right.pos) :
               right \in {ParseComparison(toks, pos + 1)}})

ParseLogicalAnd(toks, pos) ==
    Only({IF left.err # None THEN left ELSE ParseLogicalAndLoop(toks, left.node, left.pos) :
          left \in {ParseComparison(toks, pos)}})

RECURSIVE ParseLogicalOrLoop(_, _, _)
ParseLogicalOrLoop(toks, left, pos) ==
    IF ~AtKind(toks, pos, {"LogicalOr"}) THEN ParseResult(None, left, pos)
    ELSE Only({IF right.err # None THEN right
               ELSE ParseLogicalOrLoop(toks, Chained(toks, left, pos, right), right.pos) :
               right \in {ParseLogicalAnd(toks, pos + 1)}})

ParseLogicalOr(toks, pos) ==
    Only({IF left.err # None THEN left ELSE ParseLogicalOrLoop(toks, left.node, left.pos) :
          left \in {ParseLogicalAnd(toks, pos)}})

\* Parser.Parse on the tokens of a source
Parse(toks) == ParseLogicalOr(toks, 0)

-----------------------------------------------------------------------------
(* The evaluator, continued: binary operations, subscripts, attributes,   *)
(* literals, unary operations, maps, lists and Evaluate itself.            *)

\* Operands of kind Int, String and Boolean, Floats of literals, and
\* mismatched kinds; List and Map operands and Floats read from the file are
\* not compared in the documents modelled.
\* 10 to the power of n
RECURSIVE Pow10(_)
Pow10(n) == IF n = 0 THEN 1 ELSE 10 * Pow10(n - 1)

\* sum of the digits d (all of one sign) weighted as a decimal numeral
RECURSIVE SignedDigits(_)
SignedDigits(d) ==
    IF d = <<>> THEN 0 ELSE 10 * SignedDigits(SubSeq(d, 1, Len(d) - 1)) + d[Len(d)]

\* An Int, or a Float that came from a literal or from arithmetic, as the
\* fraction [num, den] with den positive.
AsRat(x) ==
    IF KindOf(x) = "Int" THEN [num |-> x.v, den |-> 1]
    ELSE IF IsFloatQ(x) THEN [num |-> x.num, den |-> x.den]
    ELSE [num |-> x.whole * Pow10(Len(x.frac)) + SignedDigits(x.frac),
          den |-> Pow10(Len(x.frac))]

\* Is x an Int or a Float whose number the model holds (not the bit pattern
\* of a float read from the file)?
IsNumber(x) == KindOf(x) = "Int" \/ IsFloatLit(x) \/ IsFloatQ(x)

doBinOpEquals(l, r) ==
    IF KindOf(l) = KindOf(r) /\ KindOf(l) \in {"Int", "String", "Boolean"}
    THEN l.v = r.v
    ELSE IF IsNumber(l) /\ IsNumber(r) /\ (IsFloatQ(l) \/ IsFloatQ(r))
    THEN Only({a.num * b.den = b.num * a.den : a \in {AsRat(l)}, b \in {AsRat(r)}})
    ELSE IF IsFloatLit(l) /\ IsFloatLit(r) THEN l.whole = r.whole /\ l.frac = r.frac
    ELSE IF KindOf(l) = "Int" /\ IsFloatLit(r) THEN r.frac = <<>> /\ l.v = r.whole
    ELSE IF IsFloatLit(l) /\ KindOf(r) = "Int" THEN l.frac = <<>> /\ l.whole = r.v
    ELSE FALSE

RECURSIVE SeqLess(_, _, _)
SeqLess(a, b, i) ==
    IF i > Len(b) THEN FALSE
    ELSE IF i > Len(a) THEN TRUE
    ELSE IF a[i] # b[i] THEN a[i] < b[i]
    ELSE SeqLess(a, b, i + 1)

\* [ok, v]: ok is FALSE for ErrCannotCompare.
doBinOpLt(l, r) ==
    IF KindOf(l) = "Int" /\ KindOf(r) = "Int" THEN [ok |-> TRUE, v |-> l.v < r.v]
    ELSE IF KindOf(l) = "String" /\ KindOf(r) = "String"
    THEN [ok |-> TRUE, v |-> SeqLess(l.v, r.v, 1)]
    ELSE [ok |-> FALSE, v |-> FALSE]

ResultAsBoolean(v) ==
    CASE KindOf(v) = "Int" -> [ok |-> TRUE, v |-> v.v # 0]
      [] KindOf(v) = "Boolean" -> [ok |-> TRUE, v |-> v.v]
      [] KindOf(v) = "String" -> [ok |-> TRUE, v |-> Len(v.v) > 0]
      [] KindOf(v) = "List" -> [ok |-> TRUE, v |-> Len(v.v) > 0]
      [] v.k = "Map" ->
            [ok |-> TRUE, v |-> DOMAIN v.v # {} \/ ("entries" \in DOMAIN v /\ v.entries # <<>>)]
      [] v.k \in {"FileRef", "FormatMap"} -> [ok |-> TRUE, v |-> TRUE]
      [] IsFloatLit(v) -> [ok |-> TRUE, v |-> v.whole # 0 \/ v.frac # <<>>]
      [] IsFloatQ(v) -> [ok |-> TRUE, v |-> v.num # 0]
      \* the bit pattern of a float read from the file: +0.0 and -0.0 are zero
      [] KindOf(v) = "Float" ->
            [ok |-> TRUE, v |-> \E i \in 1..Len(v.v) : v.v[i] # 0 /\ (i > 1 \/ v.v[i] # 128)]
      [] OTHER -> [ok |-> FALSE, v |-> FALSE]

Abs(n) == IF n < 0 THEN 0 - n ELSE n

\* the quotient of the integers n and d (d # 0) truncated towards zero
Quo(n, d) == IF (n < 0) = (d < 0) THEN Abs(n) \div Abs(d) ELSE 0 - (Abs(n) \div Abs(d))

\* the number num / den as a FloatQ with a positive denominator
Normal(num, den) == IF den < 0 THEN FloatQ(0 - num, 0 - den) ELSE FloatQ(num, den)

\* TokenDiv on two numbers: all four combinations of Int and Float test the
\* right operand against zero before they divide.
Divide(a, b) ==
    IF b.num = 0 THEN Err("DomainError")
    ELSE Normal(a.num * b.den, a.den * b.num)

\* The integer nearest to num / den (den > 0), the even one of two that are
\* equally near.
RoundHalfEven(num, den) ==
    Only({IF 2 * (num - fl * den) > den \/ (2 * (num - fl * den) = den /\ fl % 2 = 1)
          THEN fl + 1 ELSE fl
          : fl \in {IF num >= 0 THEN num \div den ELSE 0 - ((0 - num + den - 1) \div den)}})

\* TokenRemainder with a Float operand: math.Remainder(x, y) is x - n * y
\* for the integer n nearest to x / y.
Remainder(a, b) ==
    IF b.num = 0 THEN Err("DomainError")
    ELSE Only({FloatQ(a.num * b.den - n * b.num * a.den, a.den * b.den)
               : n \in {RoundHalfEven(IF b.num < 0 THEN 0 - a.num * b.den ELSE a.num * b.den,
                                       Abs(a.den * b.num))}})

\* TokenRemainder on two Ints.  The test for zero compares the pointer of
\* the right operand with the pointer of a fresh big.Int, which are never
\* the same, so the DomainError is never returned and big.Int.Rem divides:
\* by zero it panics, otherwise the remainder has the sign of the dividend.
IntRemainder(a, b) ==
    IF b = 0 THEN Err("Panic")
    ELSE IntV(a - b * Quo(a, b))

EvaluateBinOpOn(f, l, r) ==
    CASE f = "==" -> BoolV(doBinOpEquals(l, r))
      [] f = "!=" -> BoolV(~doBinOpEquals(l, r))
      [] f = "<" -> Only({IF lt.ok THEN BoolV(lt.v) ELSE Err("TypeError") : lt \in {doBinOpLt(l, r)}})
      [] f = "+" -> IF KindOf(l) = "Int" /\ KindOf(r) = "Int" THEN IntV(l.v + r.v)
                    ELSE IF KindOf(l) = "String" /\ KindOf(r) = "String" THEN StrV(l.v \o r.v)
                    ELSE Err("TypeError")
      [] f = "-" -> IF KindOf(l) = "Int" /\ KindOf(r) = "Int" THEN IntV(l.v - r.v)
                    ELSE Err("TypeError")
      [] f = "*" -> IF KindOf(l) = "Int" /\ KindOf(r) = "Int" THEN IntV(l.v * r.v)
                    ELSE Err("TypeError")
      [] f = "/" -> IF IsNumber(l) /\ IsNumber(r) THEN Divide(AsRat(l), AsRat(r))
                    ELSE Err("TypeError")
      [] f = "%" -> IF KindOf(l) = "Int" /\ KindOf(r) = "Int" THEN IntRemainder(l.v, r.v)
                    ELSE IF IsNumber(l) /\ IsNumber(r) THEN Remainder(AsRat(l), AsRat(r))
                    ELSE Err("TypeError")
      [] f \in {"||", "&&"} ->
            \* the right operand is looked at only when the left one does not decide
            Only({IF ~b[1].ok THEN Err("RuntimeError")
                  ELSE IF b[1].v = (f = "||") THEN BoolV(b[1].v)
                  ELSE IF ~b[2].ok THEN Err("RuntimeError")
                  ELSE BoolV(b[2].v)
                  : b \in {[i \in 1..2 |-> ResultAsBoolean(IF i = 1 THEN l ELSE r)]}})
      [] OTHER -> Err("RuntimeError")

\* Can a Result be the key of a Go map?  A List, a Map, a Lazy and a Type
\* (a struct that holds a slice) are unhashable: the insertion panics.
Hashable(x) == KindOf(x) \notin {"List", "Map", "Lazy", "Type"}

\* Are two hashable Results the same key of a Go map?  An Int holds a
\* pointer to its big.Int, which no other Int shares.
SameKey(x, y) == KindOf(x) = KindOf(y) /\ KindOf(x) # "Int" /\ x = y

\* The entries of a MapResult that EvaluateMap built (none for other Maps).
EntriesOf(m) == IF "entries" \in DOMAIN m THEN m.entries ELSE <<>>

\* expr.(MapResult)[item]: the value, or None when no key is the same key.
Lookup(m, item, fp) ==
    IF KindOf(item) = "Ident" /\ MapGet(m, item.v, fp) # None THEN MapGet(m, item.v, fp)
    ELSE IF \E i \in 1..Len(EntriesOf(m)) : SameKey(m.entries[i].key, item)
    THEN m.entries[CHOOSE i \in 1..Len(m.entries) : SameKey(m.entries[i].key, item)].val
    ELSE None

\* EvaluateSubscript once both operands are evaluated.
EvaluateSubscriptOn(expr, item, st) ==
    CASE KindOf(expr) = "Ident" ->
            IF ~Hashable(item) THEN Err("Panic")
            ELSE IF KindOf(item) = "Ident" /\ item.v \in DOMAIN st.ns THEN st.ns[item.v]
            ELSE Err("AccessError")
      [] KindOf(expr) = "Map" ->
            \* Go map lookup: a key of an unhashable type panics; an Int key is
            \* a *big.Int compared by address, which no fresh Int equals; the
            \* other keys are compared by value.
            IF ~Hashable(item) THEN Err("Panic")
            ELSE Only({IF found # None THEN found ELSE Err("AccessError")
                       : found \in {Lookup(expr, item, st.fp)}})
      [] KindOf(expr) = "Type" ->
            IF expr.name = "byte" THEN TypeV("byte", item) ELSE Err("TypeError")
      [] KindOf(expr) = "List" ->
            IF KindOf(item) # "Int" THEN Err("TypeError")
            ELSE IF item.v >= Len(expr.v) THEN Err("AccessError")
            ELSE IF item.v < 0 THEN Err("Panic")
            ELSE expr.v[item.v + 1]
      [] OTHER -> Err("TypeError")

\* EvaluateAttr once the target is evaluated; the attribute is an identifier.
EvaluateAttrOn(expr, id, st) ==
    CASE KindOf(expr) = "Ident" ->
            IF id \in DOMAIN st.ns THEN st.ns[id] ELSE Err("AccessError")
      [] KindOf(expr) = "Map" ->
            IF MapGet(expr, id, st.fp) # None THEN MapGet(expr, id, st.fp)
            ELSE Err("AccessError")
      [] OTHER -> Err("TypeError")

\* The state that ParseDef evaluates the document in: the nil Namespace,
\* and the order in which this run visits the entries of a Go map.
LoadState(ord) == [off |-> 0, ns |-> EmptyMap, fp |-> 0, gen |-> 0, nil |-> TRUE, order |-> ord]

\* namespace == nil
IsNil(st) == "nil" \in DOMAIN st

\* The base that big.Int.SetString(s, 0) reads s in, and the number of
\* characters of its prefix: 0x or 0X is 16, 0b or 0B is 2, 0o or 0O is 8, a
\* bare leading 0 is 8 as well, anything else is 10.
BaseOf(s) ==
    IF Len(s) >= 2 /\ s[1] = "0"
    THEN CASE s[2] \in {"x", "X"} -> [base |-> 16, skip |-> 2]
           [] s[2] \in {"b", "B"} -> [base |-> 2, skip |-> 2]
           [] s[2] \in {"o", "O"} -> [base |-> 8, skip |-> 2]
           [] OTHER -> [base |-> 8, skip |-> 1]
    ELSE [base |-> 10, skip |-> 0]

\* The digits of s from position from on, read in base: [ok, val].
DigitsIn(s, from, base) ==
    Only({IF d # <<>> /\ \A i \in 1..Len(d) : d[i] >= 0
          THEN [ok |-> TRUE, val |-> DigitsNum(d, base)]
          ELSE [ok |-> FALSE, val |-> 0] :
          d \in {[i \in 1..(Len(s) - from + 1) |-> DigitVal(s[from + i - 1], base)]}})

\* big.Int.SetString(s, 0) on a text without sign and underscores: [ok, val]
SetString0(s) == Only({DigitsIn(s, b.skip + 1, b.base) : b \in {BaseOf(s)}})

\* the digits of a fraction without its trailing zeros
RECURSIVE StripTrailingZeros(_)
StripTrailingZeros(d) ==
    IF d # <<>> /\ d[Len(d)] = 0 THEN StripTrailingZeros(SubSeq(d, 1, Len(d) - 1)) ELSE d

\* strconv.ParseFloat(s, 64) on the text of a Float token (digits and dots,
\* a digit first): [ok, val]; texts short enough to be exact in a float64.
ParseFloat(s) ==
    IF Cardinality({i \in 1..Len(s) : s[i] = "."}) # 1 THEN [ok |-> FALSE, val |-> None]
    ELSE Only({[ok |-> TRUE,
                val |-> FloatLit(DigitsNum(SubSeq(d, 1, dot - 1), 10),
                                 StripTrailingZeros(SubSeq(d, dot + 1, Len(d))))] :
               dot \in {i \in 1..Len(s) : s[i] = "."},
               d \in {[i \in 1..Len(s) |-> IF s[i] = "." THEN 0 ELSE DigitVal(s[i], 10)]}})

\* the Result of a conversion of a literal's text, or its SyntaxError
Converted(r, isInt) ==
    IF ~r.ok THEN Err("SyntaxError") ELSE IF isInt THEN IntV(r.val) ELSE r.val

\* the Result of an identifier
EvaluateIdentifier(name, st) ==
    IF name \in AvailableTypeNames THEN TypeV(name, None)
    ELSE IF IsNil(st) THEN IdentV(name)
    ELSE IF name \in DOMAIN st.ns THEN st.ns[name]
    ELSE Err("AccessError")

EvaluateLiteral(tok, st) ==
    CASE tok.Kind = "Integer" -> Converted(SetString0(tok.Value), TRUE)
      [] tok.Kind = "Float" -> Converted(ParseFloat(tok.Value), FALSE)
      [] tok.Kind = "Identifier" -> EvaluateIdentifier(Str(tok.Value), st)
      [] tok.Kind = "Keyword" ->
            IF tok.Value = <<"t", "r", "u", "e">> THEN BoolV(TRUE)
            ELSE IF tok.Value = <<"f", "a", "l", "s", "e">> THEN BoolV(FALSE)
            ELSE Err("SyntaxError")
      [] tok.Kind = "String" -> StrV(tok.Bytes)
      [] OTHER -> Err("RuntimeError")

\* EvaluateUnaryOp once the operand is evaluated.  The negation of a Float
\* negates its whole part and each digit of its fraction.
EvaluateUnaryOpOn(f, x) ==
    CASE f = "+" -> IF KindOf(x) \in {"Int", "Float"} THEN x ELSE Err("TypeError")
      [] f = "-" ->
            IF KindOf(x) = "Int" THEN IntV(0 - x.v)
            ELSE IF IsFloatLit(x)
            THEN FloatLit(0 - x.whole, [i \in 1..Len(x.frac) |-> 0 - x.frac[i]])
            ELSE Err("TypeError")
      [] f = "~" -> IF KindOf(x) = "Int" THEN IntV(0 - x.v - 1) ELSE Err("TypeError")
      [] f = "!" -> Only({IF b.ok THEN BoolV(~b.v) ELSE Err("RuntimeError")
                          : b \in {ResultAsBoolean(x)}})
      [] OTHER -> Err("RuntimeError")

\* Does the node have to be evaluated on access rather than on parse?  (No
\* node of the parser has a type outside the cases, so no error arises.)
RECURSIVE MustEvaluateLazily(_)
MustEvaluateLazily(node) ==
    CASE node.op = "bin" -> MustEvaluateLazily(node.l) \/ MustEvaluateLazily(node.r)
      [] node.op = "unary" -> MustEvaluateLazily(node.e)
      [] node.op = "attr" -> TRUE
      [] node.op = "sub" -> MustEvaluateLazily(node.obj) \/ MustEvaluateLazily(node.item)
      [] node.op = "literal" ->
            node.tok.Kind = "Identifier" /\ Str(node.tok.Value) \notin AvailableTypeNames
      [] node.op = "ident" -> node.id \notin AvailableTypeNames
      [] node.op \in {"map", "list"} -> FALSE
      [] node.op = "call" ->
            \/ MustEvaluateLazily(node.e)
            \/ \E i \in 1..Len(node.args) : MustEvaluateLazily(node.args[i])
      [] OTHER -> FALSE

\* items[keyRes] = valueRes on the entries of a MapResult
PutEntry(entries, key, val) ==
    IF \E i \in 1..Len(entries) : SameKey(entries[i].key, key)
    THEN [i \in 1..Len(entries) |->
             IF SameKey(entries[i].key, key) THEN [key |-> key, val |-> val] ELSE entries[i]]
    ELSE Append(entries, [key |-> key, val |-> val])

RECURSIVE Evaluate(_, _)
RECURSIVE EvaluateMapLoop(_, _, _)
RECURSIVE EvaluateListLoop(_, _, _)

\* The value of an entry of a Map or of an item of a List.  The Lazy holds
\* the node; its closure evaluates the node of its own iteration.
EntryValue(val, st) == IF MustEvaluateLazily(val) THEN LazyV(val) ELSE Evaluate(val, st)

\* The loop of EvaluateMap over the items that are left, in the order of
\* this run; entries holds the MapResult built so far.
EvaluateMapLoop(items, st, entries) ==
    IF items = <<>> THEN CasesV(entries)
    ELSE Only({IF IsErr(keyRes) THEN keyRes
               ELSE Only({IF IsErr(valueRes) THEN valueRes
                          ELSE IF ~Hashable(keyRes) THEN Err("Panic")
                          ELSE EvaluateMapLoop(Tail(items), st,
                                               PutEntry(entries, keyRes, valueRes)) :
                          valueRes \in {EntryValue(items[1].val, st)}}) :
               keyRes \in {Evaluate(items[1].key, st)}})

\* The items of a MapNode in the order in which this run's range visits them.
Ranged(items, st) ==
    IF "order" \in DOMAIN st /\ st.order = "rev" THEN Reverse(items) ELSE items

\* A MapResult has no order of its own: its entries are listed in the order
\* of the source whichever way the run went.
EvaluateMap(items, st) ==
    Only({IF ~IsErr(m) /\ Ranged(items, st) # items
          THEN [m EXCEPT !.entries = Reverse(m.entries)] ELSE m :
          m \in {EvaluateMapLoop(Ranged(items, st), st, <<>>)}})

EvaluateListLoop(items, st, results) ==
    IF items = <<>> THEN ListV(results)
    ELSE Only({IF IsErr(valRes) THEN valRes
               ELSE EvaluateListLoop(Tail(items), st, Append(results, valRes)) :
               valRes \in {EntryValue(items[1], st)}})

EvaluateList(items, st) == EvaluateListLoop(items, st, <<>>)

\* the RuntimeError "evaluation undefined for type ..." of Evaluate
UndefinedFor(type) == Error("RuntimeError", type, None, 0)

\* A node of type Call has no case in Evaluate and takes the default one.
Evaluate(e, st) ==
    CASE e.op = "lit" -> e.val
      [] e.op = "literal" -> EvaluateLiteral(e.tok, st)
      [] e.op = "ident" -> EvaluateIdentifier(e.id, st)
      [] e.op = "attr" ->
            LET x == Evaluate(e.obj, st)
            IN  IF IsErr(x) THEN x ELSE EvaluateAttrOn(x, e.id, st)
      [] e.op = "sub" ->
            LET x == Evaluate(e.obj, st)
                i == Evaluate(e.item, st)
            IN  IF IsErr(x) THEN x ELSE IF IsErr(i) THEN i
                ELSE EvaluateSubscriptOn(x, i, st)
      [] e.op = "bin" ->
            LET l == Evaluate(e.l, st)
                r == Evaluate(e.r, st)
            IN  IF IsErr(l) THEN l ELSE IF IsErr(r) THEN r
                ELSE EvaluateBinOpOn(e.f, l, r)
      [] e.op = "unary" ->
            LET x == Evaluate(e.e, st)
            IN  IF IsErr(x) THEN x ELSE EvaluateUnaryOpOn(e.f, x)
      [] e.op = "map" -> EvaluateMap(e.items, st)
      [] e.op = "list" -> EvaluateList(e.items, st)
      [] e.op = "call" -> UndefinedFor("Call")
      [] OTHER -> Err("RuntimeError")

\* A Result that may be Lazy, forced in the namespace of st.
Force(v, st) == IF v.k = "Lazy" THEN Evaluate(v.e, st) ELSE v

-----------------------------------------------------------------------------
(* The Maps of the document that describe a field, and FormatType.  A      *)
(* field Map is a record with one component per key the applier reads;     *)
(* None stands for an absent key.  id holds the identifier that the Lazy   *)
(* under `id` yields in the nil namespace ("" when the key is absent);     *)
(* endian holds the string under `endian` ("" when absent); name likewise; *)
(* cases is the Map of cases, kept as the sequence of its [key, val]       *)
(* entries in source order (see CasesV); pos is the entry `pos` that       *)
(* processType adds when the Map is bound to `file`.                       *)

DefaultField ==
    [k |-> "FormatMap", id |-> "", name |-> "", type |-> None, at |-> None,
     if |-> None, valid |-> None, switch |-> None, cases |-> None,
     default |-> None, match |-> None, endian |-> "", value |-> None,
     strip |-> None, item |-> None, while |-> None, fields |-> None,
     members |-> None, pos |-> None]

Field(r) == r @@ DefaultField

\* The keys of a Map that is not a field Map of the document (the `file`
\* Map, a struct's value) are all absent, `pos` apart.
AsField(m) == IF m.k = "FormatMap" THEN m ELSE [DefaultField EXCEPT !.k = m.k]

Skipped == [k |-> "Skipped"]

DefaultFormat ==
    [k |-> "Format", Type |-> "", Id |-> "", Name |-> "", At |-> None,
     Valid |-> None, If |-> None, Switched |-> FALSE, Endian |-> "",
     Match |-> <<>>, Size |-> 0, Strip |-> FALSE, RawFields |-> <<>>,
     VarValue |-> None, ArrSize |-> 0, ArrSizeIsEos |-> FALSE, While |-> None,
     RawArrItem |-> None, EnumType |-> "", EnumMembers |-> <<>>]

SeekPos(o, w) == [k |-> "SeekPos", off |-> o, whence |-> w]

MagicTag(c, o) == [Contents |-> c, Offset |-> o]

\* strings.ToLower on the spellings of an endianness.
ToLower(s) ==
    CASE s = "BIG" -> "big"
      [] s = "Big" -> "big"
      [] s = "LITTLE" -> "little"
      [] s = "Little" -> "little"
      [] OTHER -> s

\* getFormatEndian: the field's own `endian`, else the `endian` of base,
\* which is required (base is None for the nil Map of a top-level field or
\* an array item).  An Error or the string (in a record tagged "Endian").
getFormatEndian(bin, base) ==
    LET endian == IF bin.endian # "" THEN bin.endian
                  ELSE IF base = None THEN "" ELSE base.endian
    IN  IF bin.endian = "" /\ (base = None \/ endian = "") THEN Err("MissingKey")
        ELSE IF ToLower(endian) \notin {"little", "big"} THEN Err("BadEndian")
        ELSE [k |-> "Endian", v |-> ToLower(endian)]

\* The scan of `cases`: entries are visited forwards or backwards (a Go map
\* has no order of its own); the first visited entry whose key equals the
\* switch value is selected.  None when no entry matches.
RECURSIVE ScanCases(_, _, _, _, _)
ScanCases(cases, visit, n, switchOn, st) ==
    IF n > Len(visit) THEN None
    ELSE Only({
        IF IsErr(cond) THEN cond
        ELSE IF doBinOpEquals(switchOn, cond)
        THEN Only({
            IF IsErr(sel) THEN sel
            ELSE IF KindOf(sel) # "Map" THEN Err("TypeMismatch")
            ELSE sel
          : sel \in {Force(cases[visit[n]].val, st)}})
        ELSE ScanCases(cases, visit, n + 1, switchOn, st)
      : cond \in {Force(cases[visit[n]].key, st)}})

VisitOrder(n, ord) == IF ord = "fwd" THEN [i \in 1..n |-> i] ELSE [i \in 1..n |-> n + 1 - i]

\* processSwitch: an Error, or [k |-> "Switch", selected], selected being None
\* when the field has no `switch`.
processSwitch(format, st, ord) ==
    IF format.switch = None THEN [k |-> "Switch", selected |-> None]
    ELSE IF format.switch.k # "Lazy" THEN Err("Panic")
    ELSE IF format.cases = None THEN Err("MissingKey")
    ELSE Only({
        IF defaultRes # None /\ IsErr(defaultRes) THEN defaultRes
        ELSE IF defaultRes # None /\ KindOf(defaultRes) # "Map" THEN Err("Panic")
        ELSE Only({
            IF IsErr(switchOn) THEN switchOn
            ELSE Only({
                IF hit # None /\ IsErr(hit) THEN hit
                ELSE IF hit # None THEN [k |-> "Switch", selected |-> hit]
                ELSE IF defaultRes # None THEN [k |-> "Switch", selected |-> defaultRes]
                ELSE Err("NoCase")
              : hit \in {ScanCases(format.cases.entries,
                                   VisitOrder(Len(format.cases.entries), ord), 1, switchOn, st)}})
          : switchOn \in {Evaluate(format.switch.e, st)}})
      : defaultRes \in {IF format.default = None THEN None ELSE Force(format.default, st)}})

\* The resolution of `at`: None, a SeekPos or an Error.
ResolveAt(bin, st) ==
    IF bin.at = None THEN None
    ELSE Only({
        IF IsErr(resolvedAt) THEN resolvedAt
        ELSE IF KindOf(resolvedAt) = "Int" THEN SeekPos(resolvedAt.v, "start")
        ELSE IF KindOf(resolvedAt) = "List"
        THEN IF Len(resolvedAt.v) < 2 THEN Err("BadAt")
             ELSE IF KindOf(resolvedAt.v[1]) # "Int" THEN Err("BadAt")
             ELSE IF KindOf(resolvedAt.v[2]) # "String" THEN Err("BadAt")
             ELSE IF resolvedAt.v[2].v = StartStr THEN SeekPos(resolvedAt.v[1].v, "start")
             ELSE IF resolvedAt.v[2].v = EndStr THEN SeekPos(resolvedAt.v[1].v, "end")
             ELSE IF resolvedAt.v[2].v = CurrentStr THEN SeekPos(resolvedAt.v[1].v, "current")
             ELSE Err("BadAt")
        ELSE Err("BadAt")
      : resolvedAt \in {Force(bin.at, st)}})

\* A small non-negative number as a big integer.
RECURSIVE NatToMag(_)
NatToMag(n) == IF n = 0 THEN <<>> ELSE Append(NatToMag(n \div 256), n % 256)

IntToBig(n) == IF n < 0 THEN Big(TRUE, NatToMag(0 - n)) ELSE Big(FALSE, NatToMag(n))

\* The members of an enum, checked one by one: an Error, or the EnumMembers
\* in a record tagged "Members".
RECURSIVE ParseMembers(_, _, _, _)
ParseMembers(members, i, enumType, acc) ==
    IF i > Len(members) THEN [k |-> "Members", v |-> acc]
    ELSE LET m == members[i]
         IN  IF KindOf(m) # "Map" THEN Err("TypeMismatch")
             ELSE IF m.id = "" \/ m.value = None THEN Err("MissingKey")
             ELSE IF KindOf(m.value) = "Int" /\ ~IntegerInBounds(enumType, IntToBig(m.value.v))
             THEN Err("EnumBounds")
             ELSE ParseMembers(members, i + 1, enumType,
                               Append(acc, [Id |-> m.id, Value |-> m.value]))

\* The part of ParseFormatType that depends on the type (the final switch).
TypeSpecific(baseFormat, bin, typeRes, st, base) ==
    CASE baseFormat.Type = "magic" ->
            IF bin.match = None THEN Err("MissingKey")
            ELSE IF KindOf(bin.match) = "String"
            THEN [baseFormat EXCEPT !.Match = <<MagicTag(bin.match.v, 0)>>]
            ELSE IF KindOf(bin.match) = "List"
            THEN IF \E i \in 1..Len(bin.match.v) : KindOf(bin.match.v[i]) # "String"
                 THEN Err("TypeMismatch")
                 ELSE [baseFormat EXCEPT
                         !.Match = [i \in 1..Len(bin.match.v) |-> MagicTag(bin.match.v[i].v, 0)]]
            ELSE baseFormat
      [] baseFormat.Type \in (IntTypes \cup FloatTypes) \ {"uint8", "int8"} ->
            Only({
                IF IsErr(endian) THEN endian
                ELSE [baseFormat EXCEPT !.Endian = endian.v]
              : endian \in {getFormatEndian(bin, base)}})
      [] baseFormat.Type = "var" ->
            IF bin.value = None THEN Err("MissingKey")
            ELSE [baseFormat EXCEPT !.VarValue = bin.value]
      [] baseFormat.Type = "byte" ->
            IF bin.strip # None /\ KindOf(bin.strip) # "Boolean" THEN Err("Panic")
            ELSE Only({
                IF IsErr(sizeRes) THEN sizeRes
                ELSE IF KindOf(sizeRes) # "Int" THEN Err("BadSize")
                ELSE IF sizeRes.v < 0 THEN Err("BadSize")
                ELSE [baseFormat EXCEPT !.Strip = (bin.strip # None /\ bin.strip.v),
                                        !.Size = sizeRes.v]
              : sizeRes \in {IF typeRes.param = None THEN IntV(1)
                             ELSE Force(typeRes.param, st)}})
      [] baseFormat.Type = "array" ->
            IF typeRes.param = None THEN Err("BadSize")
            ELSE IF bin.item = None THEN Err("MissingKey")
            ELSE IF KindOf(bin.item) # "Map" THEN Err("Panic")
            ELSE Only({
                IF IsErr(arrSizeRes) THEN arrSizeRes
                ELSE IF KindOf(arrSizeRes) = "Ident"
                THEN IF arrSizeRes.v = "eos"
                     THEN [baseFormat EXCEPT !.ArrSizeIsEos = TRUE,
                                             !.While = bin.while,
                                             !.RawArrItem = bin.item]
                     ELSE Err("BadSize")
                ELSE IF KindOf(arrSizeRes) # "Int" THEN Err("TypeMismatch")
                ELSE IF arrSizeRes.v < 0 THEN Err("BadSize")
                ELSE [baseFormat EXCEPT !.ArrSize = arrSizeRes.v,
                                        !.RawArrItem = bin.item]
              : arrSizeRes \in {Force(typeRes.param, st)}})
      [] baseFormat.Type = "struct" ->
            IF bin.fields = None THEN Err("MissingKey")
            ELSE IF KindOf(bin.fields) # "List" THEN Err("Panic")
            ELSE Only({
                IF IsErr(endian) THEN endian
                ELSE IF \E i \in 1..Len(bin.fields.v) : KindOf(bin.fields.v[i]) # "Map"
                THEN Err("TypeMismatch")
                ELSE [baseFormat EXCEPT !.RawFields = bin.fields.v, !.Endian = endian.v]
              : endian \in {getFormatEndian(bin, base)}})
      [] baseFormat.Type = "enum" ->
            IF typeRes.param = None THEN Err("BadEnum")
            ELSE Only({
                IF IsErr(enumType) THEN enumType
                ELSE IF KindOf(enumType) # "Type" THEN Err("TypeMismatch")
                ELSE IF enumType.name \notin AvailableNumericTypes THEN Err("BadEnum")
                ELSE IF bin.members = None THEN Err("MissingKey")
                ELSE IF KindOf(bin.members) # "List" THEN Err("Panic")
                ELSE Only({
                    IF IsErr(endian) THEN endian
                    ELSE Only({
                        IF IsErr(mem) THEN mem
                        ELSE [baseFormat EXCEPT !.EnumType = enumType.name,
                                                !.Endian = endian.v,
                                                !.EnumMembers = mem.v]
                      : mem \in {ParseMembers(bin.members.v, 1, enumType.name, <<>>)}})
                  : endian \in {IF enumType.name \in {"uint8", "int8"}
                                THEN [k |-> "Endian", v |-> ""]
                                ELSE getFormatEndian(bin, base)}})
              : enumType \in {Force(typeRes.param, st)}})
      [] OTHER -> baseFormat

\* A ParseFormatType that does not look at `if`.
willParseResIgnoringIf(bin, st) == BoolV(TRUE)

\* What the `if` of a field evaluates to; true when there is none.
willParseRes(bin, st) ==
    IF bin.if = None THEN BoolV(TRUE)
    ELSE IF bin.if.k # "Lazy" THEN Err("Panic")
    ELSE Evaluate(bin.if.e, st)

\* ParseFormatType: Skipped, an Error, or the FormatType (a record tagged
\* "Format").  base is None or the Map {endian: ...} of the enclosing struct.
RECURSIVE ParseFormatType(_, _, _, _)

\* ParseFormatType from the `type` key on: bin0 is the field's Map, bin the
\* Map its keys are read from (the selected case when there is a switch).
ParseSelected(bin0, bin, switched, st, base, ord) ==
    IF bin.type = None THEN Err("MissingKey")
    ELSE Only({
        IF bin.type.k = "Lazy" /\ IsErr(tempRes) THEN tempRes
        ELSE IF bin.type.k = "Lazy" /\ KindOf(tempRes) \notin {"Map", "Type"} THEN Err("BadType")
        ELSE Only({
            IF inherited # None /\ inherited.k # "Format" THEN inherited
            ELSE Only({
                IF atVal # None /\ IsErr(atVal) THEN atVal
                ELSE IF bin.valid # None /\ bin.valid.k # "Lazy" THEN Err("Panic")
                ELSE IF inherited # None
                THEN [inherited EXCEPT !.Id = bin.id, !.Name = bin.name, !.At = atVal,
                                       !.If = bin0.if, !.Valid = bin.valid,
                                       !.Switched = switched]
                ELSE TypeSpecific([DefaultFormat EXCEPT
                                     !.Type = IF KindOf(tempRes) = "Type" THEN tempRes.name ELSE "",
                                     !.Id = bin.id, !.Name = bin.name, !.At = atVal,
                                     !.If = bin0.if, !.Valid = bin.valid,
                                     !.Switched = switched],
                                  bin,
                                  IF KindOf(tempRes) = "Type" THEN tempRes ELSE TypeV("", None),
                                  st, base)
              : atVal \in {ResolveAt(bin, st)}})
          : inherited \in {IF bin.type.k = "Lazy" /\ KindOf(tempRes) = "Map"
                           THEN ParseFormatType(tempRes, st, None, ord) ELSE None}})
      \* a Lazy `type` is evaluated in the namespace plus eos
      : tempRes \in {IF bin.type.k = "Lazy"
                     THEN Evaluate(bin.type.e, [st EXCEPT !.ns = Bind(st.ns, "eos", IdentV("eos"))])
                     ELSE bin.type}})

ParseFormatType(format, st, base, ord) ==
    IF KindOf(format) # "Map" THEN Err("TypeMismatch")
    ELSE Only({
        IF IsErr(willParse) THEN willParse
        ELSE IF KindOf(willParse) # "Boolean" THEN Err("TypeMismatch")
        ELSE IF ~willParse.v THEN Skipped
        ELSE Only({
            IF IsErr(switcher) THEN switcher
            ELSE ParseSelected(AsField(format),
                               IF switcher.selected = None THEN AsField(format)
                               ELSE AsField(switcher.selected),
                               switcher.selected # None, st, base, ord)
          : switcher \in {processSwitch(AsField(format), st, ord)}})
      : willParse \in {willParseRes(AsField(format), st)}})

-----------------------------------------------------------------------------
(* checkMagic, readFloat and the enum helpers (document.go).               *)

\* The loop of checkMagic over format.Match, cur being the handle's offset:
\* [err, val, off].  A Read that meets the end of the file with some bytes
\* left fills only the front of the zeroed buffer and reports no error.
RECURSIVE TryTags(_, _, _, _, _)
TryTags(bytes, baseOffset, tags, i, cur) ==
    IF i > Len(tags)
    THEN [err |-> FromCheckMagic(Error("Magic", "", None, baseOffset)), val |-> None, off |-> cur]
    ELSE LET sk == HandleSeek(bytes, cur, baseOffset + tags[i].Offset, "start")
             r == HandleRead(bytes, sk.off, Len(tags[i].Contents))
         IN  IF ~sk.ok THEN [err |-> FromCheckMagic(Err("SeekError")), val |-> None, off |-> cur]
             ELSE IF r.eof THEN [err |-> FromCheckMagic(Err("EOF")), val |-> None, off |-> r.off]
             ELSE IF r.buf = tags[i].Contents
             THEN [err |-> None, val |-> StrV(tags[i].Contents), off |-> r.off]
             ELSE TryTags(bytes, baseOffset, tags, i + 1, r.off)

checkMagic(bytes, offset, format) == TryTags(bytes, offset, format.Match, 1, offset)

\* readFloat: binary.Read fills the value with io.ReadFull, which fails with
\* io.EOF when no byte is left and with io.ErrUnexpectedEOF when too few
\* are.  The Float is kept as its big-endian bit pattern.
readFloat(bytes, offset, type, endian) ==
    LET n == IF type = "float32" THEN 4 ELSE 8
        r == HandleRead(bytes, offset, n)
    IN  IF type \notin FloatTypes THEN [err |-> Err("NotFloat"), val |-> None, off |-> offset]
        ELSE IF endian \notin {"little", "big"}
        THEN [err |-> Err("Panic"), val |-> None, off |-> offset]
        ELSE IF r.n = 0 THEN [err |-> Err("EOF"), val |-> None, off |-> r.off]
        ELSE IF r.n < n THEN [err |-> Err("UnexpectedEOF"), val |-> None, off |-> r.off]
        ELSE [err |-> None,
              val |-> FloatV(IF endian = "big" THEN r.buf ELSE Reverse(r.buf)),
              off |-> r.off]

\* parseEnumRange: [err, from, to].
parseEnumRange(bound, res) ==
    LET from == MapGet(res, "from", 0)
        to == MapGet(res, "to", 0)
    IN  IF from = None \/ to = None THEN [err |-> Err("MissingKey"), from |-> 0, to |-> 0]
        ELSE IF KindOf(from) # "Int" \/ KindOf(to) # "Int"
        THEN [err |-> Err("Panic"), from |-> 0, to |-> 0]
        ELSE IF ~IntegerInBounds(bound, IntToBig(from.v)) \/ ~IntegerInBounds(bound, IntToBig(to.v))
        THEN [err |-> Err("EnumBounds"), from |-> 0, to |-> 0]
        ELSE [err |-> None, from |-> from.v, to |-> to.v]

\* valueInEnumRange: current runs from `from` up to but excluding `to` and
\* stops at the first current that equals value.
valueInEnumRange(from, to, value) ==
    \E current \in from..(to - 1) : doBinOpEquals(value, IntV(current))

\* The loop over format.EnumMembers in processType, from member i on:
\* [st, err, isEnumerated].  A range member assigns isEnumerated, an Int
\* member only ever sets it.
RECURSIVE EnumLoop(_, _, _, _, _, _)
EnumLoop(members, i, enumType, result, isEnumerated, st) ==
    IF i > Len(members) THEN [st |-> st, err |-> None, isEnumerated |-> isEnumerated]
    ELSE LET member == members[i]
         IN  IF KindOf(member.Value) = "Map"
             THEN LET rng == parseEnumRange(enumType, member.Value)
                  IN  IF rng.err # None
                      THEN [st |-> st, err |-> rng.err, isEnumerated |-> isEnumerated]
                      ELSE EnumLoop(members, i + 1, enumType, result,
                                    valueInEnumRange(rng.from, rng.to, result),
                                    BindNs(st, member.Id, member.Value))
             ELSE IF KindOf(member.Value) = "Int"
             THEN EnumLoop(members, i + 1, enumType, result,
                           isEnumerated \/ doBinOpEquals(result, member.Value),
                           BindNs(st, member.Id, member.Value))
             ELSE [st |-> st, err |-> Err("EnumMember"), isEnumerated |-> isEnumerated]

\* bytes.TrimFunc(byteSlice, IsSpace or NUL) on the one-byte runes.
TrimSet == {0, 9, 10, 11, 12, 13, 32}

Trim(s) ==
    LET keep == {i \in 1..Len(s) : s[i] \notin TrimSet}
    IN  IF keep = {} THEN <<>>
        ELSE LET lo == CHOOSE i \in keep : \A j \in keep : i <= j
                 hi == CHOOSE i \in keep : \A j \in keep : j <= i
             IN  SubSeq(s, lo, hi)

-----------------------------------------------------------------------------
(* processType (document.go).  The result is a record                      *)
(*   [st, err, val, evs, pre, mid]                                         *)
(* st the state the call leaves (also when it fails), err None or the      *)
(* Error, val the value.  The other components are history: pre is the     *)
(* state right before the bytes of the field are read (after the `at` seek *)
(* and the first refresh of pos), mid the state `valid` is evaluated in    *)
(* (None when the call does not get that far); evs has one entry per       *)
(* completed iteration of the struct loop or array loop (see Ev).          *)

Result(st, err, val, evs, pre, mid) ==
    [st |-> st, err |-> err, val |-> val, evs |-> evs, pre |-> pre, mid |-> mid]

\* One iteration of a loop over fields: the raw field, the state before and
\* after, whether the field was skipped, the parsed id and the value.
Ev(raw, st0, st1, outcome, id, val) ==
    [raw |-> raw, st0 |-> st0, st1 |-> st1, outcome |-> outcome, id |-> id, val |-> val]

\* procFile[pos] = current.  procFile is the Map that `file` was bound to
\* when processType started: the Map made by ApplyBDF (target "FileRef",
\* whose pos is st.fp whatever `file` is bound to by now) or another Map,
\* which the namespace holds by value and which the write reaches only if
\* `file` was not rebound since (procGen is st.gen at that time).
SetPos(m, o) ==
    IF m.k = "FormatMap" THEN [m EXCEPT !.pos = IntV(o)]
    ELSE MapV(Bind(m.v, "pos", IntV(o)))

WritePos(st, target, procGen) ==
    IF target = "FileRef" THEN [st EXCEPT !.fp = st.off]
    ELSE IF st.gen = procGen THEN [st EXCEPT !.ns = Bind(st.ns, "file", SetPos(st.ns["file"], st.off))]
    ELSE st

Loop(st, err, vals, evs) == [st |-> st, err |-> err, vals |-> vals, evs |-> evs]

RECURSIVE processType(_, _, _, _)
RECURSIVE StructLoop(_, _, _, _, _, _, _, _)
RECURSIVE ArrayLoop(_, _, _, _, _, _, _)

\* The loop over format.RawFields, from field i on, cur being the state of
\* currentNs and mapping the Map under construction: a Loop whose vals is
\* the mapping.
StructLoop(fields, i, cur, mapping, endian, bytes, ord, evs) ==
    IF i > Len(fields) THEN Loop(cur, None, mapping, evs)
    ELSE Only({
        IF fieldFormat = Skipped
        THEN StructLoop(fields, i + 1, cur, mapping, endian, bytes, ord,
                        Append(evs, Ev(fields[i], cur, cur, "skipped", "", None)))
        ELSE IF IsErr(fieldFormat) THEN Loop(cur, fieldFormat, mapping, evs)
        ELSE Only({
            IF r.err # None THEN Loop(r.st, r.err, mapping, evs)
            ELSE IF fieldFormat.Id # ""
            THEN StructLoop(fields, i + 1, BindNs(r.st, fieldFormat.Id, r.val),
                            Bind(mapping, fieldFormat.Id, r.val), endian, bytes, ord,
                            Append(evs, Ev(fields[i], cur, BindNs(r.st, fieldFormat.Id, r.val),
                                           "ok", fieldFormat.Id, r.val)))
            ELSE StructLoop(fields, i + 1, r.st, mapping, endian, bytes, ord,
                            Append(evs, Ev(fields[i], cur, r.st, "ok", "", r.val)))
          : r \in {processType(fieldFormat, cur, bytes, ord)}})
      : fieldFormat \in {ParseFormatType(fields[i], cur, [endian |-> endian], ord)}})

\* The loop of an array, elements holding the i items read so far: a Loop
\* whose vals is elements.  An array that would go on beyond MaxIter items is
\* cut off with the error "Diverged".
ArrayLoop(format, st, elements, bytes, ord, evs, i) ==
    IF ~(format.ArrSizeIsEos \/ i < format.ArrSize) THEN Loop(st, None, elements, evs)
    ELSE IF i >= MaxIter THEN Loop(st, Err("Diverged"), elements, evs)
    ELSE Only({
        IF IsErr(evalWhile) THEN Loop(st, evalWhile, elements, evs)
        ELSE IF ~ResultAsBoolean(evalWhile).v THEN Loop(st, None, elements, evs)
        ELSE Only({
            IF arrItem = Skipped THEN Loop(st, Err("Skipped"), elements, evs)
            ELSE IF IsErr(arrItem) THEN Loop(st, arrItem, elements, evs)
            ELSE Only({
                IF proc.err # None
                THEN IF format.ArrSizeIsEos /\ proc.err.kind = "EOF"
                     THEN Loop(proc.st, None, elements, evs)
                     ELSE Loop(proc.st, proc.err, elements, evs)
                ELSE ArrayLoop(format, proc.st, Append(elements, proc.val), bytes, ord,
                               Append(evs, Ev(format.RawArrItem, st, proc.st, "ok",
                                              arrItem.Id, proc.val)),
                               i + 1)
              : proc \in {processType(arrItem, st, bytes, ord)}})
          : arrItem \in {ParseFormatType(format.RawArrItem, st, None, ord)}})
      : evalWhile \in {IF format.ArrSizeIsEos /\ format.While # None
                       THEN Force(format.While, st) ELSE BoolV(TRUE)}})

\* The state of the caller of a struct once the loop over its fields is
\* over: currentNs (the namespace of inner, a copy of ns made at entry) is
\* dropped, ns is as it was; the handle and the `file` Map that ApplyBDF
\* made are one and the same for both.
\* A struct that works on ns itself instead of a copy.
LeaveScopeKeepingInner(st, inner) == inner

LeaveScope(st, inner) == [st EXCEPT !.off = inner.off, !.fp = inner.fp]

\* The switch on format.Type: a Loop whose vals is the value.
ReadValue(format, st, bytes, ord) ==
    CASE format.Type = "magic" ->
            Only({Loop([st EXCEPT !.off = m.off], m.err, m.val, <<>>)
                  : m \in {checkMagic(bytes, st.off, format)}})
      [] format.Type \in IntTypes ->
            Only({
                IF num.err # "none" THEN Loop([st EXCEPT !.off = num.off], Err(num.err), None, <<>>)
                ELSE Loop([st EXCEPT !.off = num.off], None, IntV(BigToInt(num.val)), <<>>)
              : num \in {readInt(bytes, st.off, format.Type, format.Endian)}})
      [] format.Type \in FloatTypes ->
            Only({Loop([st EXCEPT !.off = num.off], num.err, num.val, <<>>)
                  : num \in {readFloat(bytes, st.off, format.Type, format.Endian)}})
      [] format.Type = "var" ->
            Only({
                IF IsErr(evalRes) THEN Loop(st, evalRes, None, <<>>)
                ELSE Loop(st, None, evalRes, <<>>)
              : evalRes \in {Force(format.VarValue, st)}})
      [] format.Type = "byte" ->
            LET r == HandleRead(bytes, st.off, format.Size)
            IN  IF r.eof THEN Loop([st EXCEPT !.off = r.off], Err("EOF"), None, <<>>)
                ELSE Loop([st EXCEPT !.off = r.off], None,
                          StrV(IF format.Strip THEN Trim(r.buf) ELSE r.buf), <<>>)
      [] format.Type = "enum" ->
            Only({
                IF inner.err # None THEN Loop(inner.st, inner.err, None, <<>>)
                ELSE Only({
                    IF loop.err # None THEN Loop(loop.st, loop.err, None, <<>>)
                    ELSE IF ~loop.isEnumerated
                    THEN Loop(loop.st, Error("NotEnumerated", format.Id, inner.val, 0),
                              None, <<>>)
                    ELSE Loop(loop.st, None, inner.val, <<>>)
                  : loop \in {EnumLoop(format.EnumMembers, 1, format.EnumType,
                                       inner.val, FALSE, inner.st)}})
              : inner \in {processType([DefaultFormat EXCEPT !.Type = format.EnumType,
                                                             !.Endian = format.Endian],
                                       st, bytes, ord)}})
      [] format.Type = "struct" ->
            Only({
                Loop(LeaveScope(st, loop.st), loop.err,
                     IF loop.err = None THEN MapV(loop.vals) ELSE None, loop.evs)
              : loop \in {StructLoop(format.RawFields, 1, st, EmptyMap, format.Endian,
                                     bytes, ord, <<>>)}})
      [] format.Type = "array" ->
            Only({
                Loop(loop.st, loop.err,
                     IF loop.err = None THEN ListV(loop.vals) ELSE None, loop.evs)
              : loop \in {ArrayLoop(format, st, <<>>, bytes, ord, <<>>, 0)}})
      [] OTHER -> Loop(st, Err("Unsupported"), None, <<>>)

\* processType once the `file` Map is in hand and the handle is at its
\* place: the first refresh of pos, the read, the binding of the id, the
\* validation, the second refresh.
ProcessFrom(format, sought, target, procGen, bytes, ord) ==
    Only({
        Only({
            IF body.err # None THEN Result(body.st, body.err, None, body.evs, st1, None)
            ELSE Only({
                Only({
                    IF IsErr(isValidRes) THEN Result(st2, isValidRes, None, body.evs, st1, st2)
                    ELSE IF KindOf(isValidRes) # "Boolean"
                    THEN Result(st2, Err("TypeMismatch"), None, body.evs, st1, st2)
                    ELSE IF ~isValidRes.v
                    THEN Result(st2, Error("Invalid", format.Id, body.vals, 0), None, body.evs,
                                st1, st2)
                    ELSE Result(WritePos(st2, target, procGen), None, body.vals, body.evs,
                                st1, st2)
                  : isValidRes \in {IF format.Valid = None THEN BoolV(TRUE)
                                    ELSE Evaluate(format.Valid.e, st2)}})
              : st2 \in {IF format.Id # "" THEN BindNs(body.st, format.Id, body.vals)
                         ELSE body.st}})
          : body \in {ReadValue(format, st1, bytes, ord)}})
      : st1 \in {WritePos(sought, target, procGen)}})

processType(format, st0, bytes, ord) ==
    Only({
        LET sk == IF format.At = None THEN [ok |-> TRUE, off |-> st.off]
                  ELSE HandleSeek(bytes, st.off, format.At.off, format.At.whence)
        IN  IF ~sk.ok THEN Result(st, Err("SeekError"), None, <<>>, None, None)
            ELSE IF "file" \notin DOMAIN st.ns \/ KindOf(st.ns["file"]) # "Map"
            THEN Result([st EXCEPT !.off = sk.off], Err("CannotAssignFile"), None, <<>>,
                        None, None)
            ELSE ProcessFrom(format, [st EXCEPT !.off = sk.off], st.ns["file"].k, st.gen,
                             bytes, ord)
      : st \in {st0}})

-----------------------------------------------------------------------------
(* The documents and files ApplyBDF is run on.  A document is the Result   *)
(* that evaluating a BinDef source yields (a Lazy wherever the source has  *)
(* an identifier that is not a type name), or a Result built directly      *)
(* through the Go API (a TypeResult with parameters).                      *)

T(name) == TypeV(name, None)

ByteN(n) == TypeV("byte", IntV(n))

\* hasBinary: is the key `binary` present?
Doc(types, binary) == [types |-> types, binary |-> binary, hasBinary |-> TRUE]

\* "A", "A\0", "\0\0\0\0" and "n" as byte strings
StrA == <<65>>

StrA0 == <<65, 0>>

Zeroes4 == <<0, 0, 0, 0>>

\* S2: {id: ver, type: uint8}, {id: legacy, type: byte[4], if: ver < 2}
DocIfSkip ==
    Doc(<<>>, <<Field([id |-> "ver", type |-> T("uint8")]),
                Field([id |-> "legacy", type |-> ByteN(4),
                       if |-> LazyV(Bin("<", Id("ver"), Lit(IntV(2))))])>>)

\* S3: {id: tag, type: uint8}, {id: body, switch: tag, cases: {1: ..., 2: ...}}
SwitchCases(id) ==
    CasesV(<<[key |-> IntV(1), val |-> Field([id |-> id, type |-> T("uint16"), endian |-> "little"])],
      [key |-> IntV(2), val |-> Field([id |-> id, type |-> ByteN(2)])]>>)

DocSwitch ==
    Doc(<<>>, <<Field([id |-> "tag", type |-> T("uint8")]),
                Field([id |-> "body", switch |-> LazyV(Id("tag")), cases |-> SwitchCases("")])>>)

\* the same with the id written in each case and with a default
DocSwitchIdInCase ==
    Doc(<<>>, <<Field([id |-> "tag", type |-> T("uint8")]),
                Field([switch |-> LazyV(Id("tag")), cases |-> SwitchCases("body"),
                       default |-> Field([id |-> "other", type |-> T("uint8")])])>>)

\* a switch whose cases 1 and 1.0 both equal the switch value 1
DocSwitchTwoHits ==
    Doc(<<>>, <<Field([id |-> "tag", type |-> T("uint8")]),
                Field([switch |-> LazyV(Id("tag")),
                       cases |-> CasesV(<<[key |-> IntV(1),
                                           val |-> Field([id |-> "x", type |-> T("uint8")])],
                                          [key |-> FloatLit(1, <<>>),
                                           val |-> Field([id |-> "y", type |-> ByteN(1)])]>>)])>>)

\* {type: magic, match: ["A\0", "\x02"]}, {id: ver, type: uint8}
DocMagic ==
    Doc(<<>>, <<Field([type |-> T("magic"), match |-> ListV(<<StrV(StrA0), StrV(<<2>>)>>)]),
                Field([id |-> "ver", type |-> T("uint8")])>>)

\* {id: ver, type: uint8}, {id: sig, type: magic, match: "A"}
DocMagicSecond ==
    Doc(<<>>, <<Field([id |-> "ver", type |-> T("uint8")]),
                Field([id |-> "sig", type |-> T("magic"), match |-> StrV(StrA)])>>)

\* a magic inside a struct
DocMagicInStruct ==
    Doc(<<>>, <<Field([id |-> "hdr", type |-> T("struct"), endian |-> "big",
                       fields |-> ListV(<<Field([type |-> T("magic"), match |-> StrV(StrA)]),
                                    Field([id |-> "a", type |-> T("uint8")])>>)])>>)

\* a magic as the item of an array of two (TypeResult{array, [2]})
DocMagicInArray ==
    Doc(<<>>, <<Field([id |-> "items", type |-> TypeV("array", IntV(2)),
                       item |-> Field([type |-> T("magic"), match |-> StrV(StrA)])])>>)

FilePosLt4 == LazyV(Bin("<", Attr(Id("file"), "pos"), Lit(IntV(4))))

\* S4 as the evaluator yields it: the type is the Lazy of `array[eos]`
DocArrayWhile ==
    Doc(<<>>, <<Field([id |-> "items", type |-> LazyV(Sub(Id("array"), Id("eos"))),
                       while |-> FilePosLt4,
                       item |-> Field([type |-> T("uint8")])])>>)

\* S4 with the type given as TypeResult{array, [eos]}
DocArrayWhileDirect ==
    Doc(<<>>, <<Field([id |-> "items", type |-> TypeV("array", IdentV("eos")),
                       while |-> FilePosLt4,
                       item |-> Field([type |-> T("uint8")])])>>)

\* an array[eos] of big-endian uint16 without `while`, then a field
DocArrayEos ==
    Doc(<<>>, <<Field([id |-> "items", type |-> TypeV("array", IdentV("eos")),
                       item |-> Field([type |-> T("uint16"), endian |-> "big"])]),
                Field([id |-> "n", type |-> T("var"), value |-> LazyV(Attr(Id("file"), "pos"))])>>)

Low == [id |-> "LOW", value |-> MapV([x \in {"from", "to"} |-> IF x = "from" THEN IntV(0) ELSE IntV(16)])]

Hi == [id |-> "HI", value |-> IntV(255)]

Member(m) == Field(m)

\* S5 with the type given as TypeResult{enum, [uint8]}
DocEnum ==
    Doc(<<>>, <<Field([id |-> "kind", type |-> TypeV("enum", T("uint8")),
                       members |-> ListV(<<Member(Low), Member(Hi)>>)])>>)

DocEnumHiFirst ==
    Doc(<<>>, <<Field([id |-> "kind", type |-> TypeV("enum", T("uint8")),
                       members |-> ListV(<<Member(Hi), Member(Low)>>)])>>)

\* S6: {id: zeroes, type: byte[4], valid: zeroes == "\0\0\0\0"}
DocValid ==
    Doc(<<>>, <<Field([id |-> "zeroes", type |-> ByteN(4),
                       valid |-> LazyV(Bin("==", Id("zeroes"), Lit(StrV(Zeroes4))))])>>)

\* a validation that fails after an earlier field gave a pair
DocValidSecond ==
    Doc(<<>>, <<Field([id |-> "ver", type |-> T("uint8")]),
                Field([id |-> "b", type |-> T("uint8"),
                       valid |-> LazyV(Bin("==", Id("b"), Lit(IntV(0))))])>>)

\* a field whose id is `file`
DocIdFile ==
    Doc(<<>>, <<Field([id |-> "file", type |-> T("uint8")]),
                Field([id |-> "a", type |-> T("uint8")])>>)

\* a struct whose id is `file`
DocStructIdFile ==
    Doc(<<>>, <<Field([id |-> "file", type |-> T("struct"), endian |-> "big",
                       fields |-> ListV(<<Field([id |-> "a", type |-> T("uint8")])>>)])>>)

\* a type declared under the id `file`
DocTypeIdFile ==
    Doc(<<Field([id |-> "file", type |-> T("uint8")])>>,
        <<Field([id |-> "a", type |-> T("uint8")]),
          Field([id |-> "p", type |-> T("var"), value |-> LazyV(Attr(Id("file"), "pos"))])>>)

\* a struct whose children use a declared type, an outer field, an earlier
\* sibling; one child may be skipped, one has no id
DocStruct ==
    Doc(<<Field([id |-> "t", type |-> T("uint8")])>>,
        <<Field([id |-> "ver", type |-> T("uint8")]),
          Field([id |-> "s", type |-> T("struct"), endian |-> "little",
                 fields |-> ListV(<<Field([id |-> "a", type |-> LazyV(Id("t"))]),
                              Field([id |-> "opt", type |-> T("uint8"),
                                     if |-> LazyV(Bin("==", Id("a"), Id("ver")))]),
                              Field([type |-> T("uint8"),
                                     if |-> LazyV(Bin("<", Id("a"), Lit(IntV(65))))]),
                              Field([id |-> "sum", type |-> T("var"),
                                     value |-> LazyV(Bin("+", Id("a"), Id("ver")))])>>)]),
          Field([id |-> "c", type |-> T("var"), value |-> LazyV(Attr(Id("s"), "sum"))])>>)

\* a field after a struct that names a child of the struct
DocStructLeak ==
    Doc(<<>>, <<Field([id |-> "s", type |-> T("struct"), endian |-> "big",
                       fields |-> ListV(<<Field([id |-> "a", type |-> T("uint8")])>>)]),
                Field([id |-> "c", type |-> T("var"), value |-> LazyV(Id("a"))])>>)

\* fields with `at`
DocAt ==
    Doc(<<>>, <<Field([id |-> "a", type |-> T("uint8"), at |-> IntV(1)]),
                Field([id |-> "b", type |-> T("uint8"),
                       at |-> ListV(<<IntV(-1), StrV(EndStr)>>)]),
                Field([id |-> "c", type |-> T("uint8")])>>)

\* a seeking field, a field without `at` after it, a field sought from the
\* start after both
DocAtStart ==
    Doc(<<>>, <<Field([id |-> "a", type |-> T("uint8"), at |-> IntV(2)]),
                Field([id |-> "b", type |-> T("uint8")]),
                Field([id |-> "c", type |-> T("uint8"),
                       at |-> ListV(<<IntV(1), StrV(StartStr)>>)]),
                Field([id |-> "d", type |-> T("uint8"), at |-> IntV(0)])>>)

\* a var that names an earlier field, which a later field rebinds
DocVar ==
    Doc(<<>>, <<Field([id |-> "a", type |-> T("uint8")]),
                Field([id |-> "v", type |-> T("var"), value |-> LazyV(Id("a"))]),
                Field([id |-> "a", type |-> T("uint8")]),
                Field([id |-> "w", type |-> T("var"),
                       value |-> LazyV(Bin("==", Id("v"), Id("a")))])>>)

\* a var after a struct whose id is `file`
DocVarAfterFile ==
    Doc(<<>>, <<Field([id |-> "file", type |-> T("struct"), endian |-> "big",
                       fields |-> ListV(<<Field([id |-> "a", type |-> T("uint8")])>>)]),
                Field([id |-> "v", type |-> T("var"), value |-> IntV(7)])>>)

\* a var whose value is a call of the built-in len
DocLen ==
    Doc(<<>>, <<Field([id |-> "name", type |-> ByteN(4)]),
                Field([id |-> "n", type |-> T("var"),
                       value |-> LazyV(CallNode(Id("len"), <<Id("name")>>))])>>)

\* a field validated by a call of the built-in len
DocValidLen ==
    Doc(<<>>, <<Field([id |-> "name", type |-> ByteN(4),
                       valid |-> LazyV(Bin("==", CallNode(Id("len"), <<Id("name")>>),
                                           Lit(IntV(4))))])>>)

\* a field with a name only, a field with neither name nor id
DocNames ==
    Doc(<<>>, <<Field([name |-> "n", type |-> T("uint8")]),
                Field([type |-> T("uint8")]),
                Field([id |-> "a", type |-> ByteN(2), strip |-> BoolV(TRUE)])>>)

\* an `if` that names nothing bound
DocIfUnbound ==
    Doc(<<>>, <<Field([id |-> "a", type |-> T("uint8"),
                       if |-> LazyV(Bin("==", Id("missing"), Lit(IntV(1))))])>>)

\* a type without id; a document without `binary`
DocTypeNoId == Doc(<<Field([type |-> T("uint8")])>>, <<Field([id |-> "a", type |-> T("uint8")])>>)

DocNoBinary == [types |-> <<>>, binary |-> <<>>, hasBinary |-> FALSE]

Documents ==
    {DocIfSkip, DocSwitch, DocSwitchIdInCase, DocMagic, DocMagicSecond,
     DocMagicInStruct, DocMagicInArray, DocArrayWhile, DocArrayWhileDirect,
     DocArrayEos, DocEnum, DocEnumHiFirst, DocValid, DocValidSecond, DocIdFile,
     DocStructIdFile, DocTypeIdFile, DocStruct, DocStructLeak, DocAt, DocNames,
     DocIfUnbound, DocTypeNoId, DocNoBinary, DocAtStart, DocVar, DocVarAfterFile,
     DocSwitchTwoHits, DocLen, DocValidLen}

\* The inputs of the scenarios S2 to S6, and every file of at most
\* MaxFileLen bytes over FileBytes.
ScenarioFiles ==
    {<<2, 65, 66, 67, 68>>, <<2, 65, 66>>, <<1, 65, 66>>, <<10, 11, 12, 13, 14, 15>>,
     <<15>>, <<32>>, <<0, 0, 0, 1>>}

FileBytes == {0, 2, 65, 255}

Files == ScenarioFiles \cup SeqsUpTo(FileBytes, MaxFileLen)

-----------------------------------------------------------------------------
(* ApplyBDF (document.go), one action per way an iteration of its loop     *)
(* over `binary` can go, and the loop body of the driver's main.           *)

\* What ApplyBDF returns: pairs is None for the nil slice; err is None or
\* [isErrMagic, cause, index]: isErrMagic tells whether the error value is
\* an ErrMagic (so that err.(ErrMagic) succeeds) or an error that wraps the
\* cause (index is the i of "binary[i]: ...", -1 when there is none).
\* verdict is what main makes of it.
\* An ApplyBDF that returns the pairs collected so far whatever happens.
ReturnedWithContents(pairs, err) == [pairs |-> contents, err |-> err, verdict |-> "none"]

Returned(pairs, err) == [pairs |-> pairs, err |-> err, verdict |-> "none"]

Wrapped(cause, i) == [isErrMagic |-> FALSE, cause |-> cause, index |-> i]

Unwrapped(cause) == [isErrMagic |-> TRUE, cause |-> cause, index |-> -1]

MetaPair(format, value) == [Field |-> format, Value |-> value]

\* What an iteration did (history): the index and raw field, the state it
\* started from, how it went, the parsed format and what processType gave.
Last(i, raw, st0, outcome, format, r) ==
    [i |-> i, raw |-> raw, st0 |-> st0, outcome |-> outcome, format |-> format, r |-> r]

St == State(off, ns, fpos, 0)

\* ns[ident] = typeRes for each entry of `types`: [err, ns].
RECURSIVE BindTypes(_, _, _)
BindTypes(typesSeq, i, n) ==
    IF i > Len(typesSeq) THEN [err |-> None, ns |-> n]
    ELSE IF KindOf(typesSeq[i]) # "Map" THEN [err |-> Err("TypeMismatch"), ns |-> n]
    ELSE IF typesSeq[i].id = "" THEN [err |-> Err("MissingKey"), ns |-> n]
    ELSE BindTypes(typesSeq, i + 1, Bind(n, typesSeq[i].id, typesSeq[i]))

Init ==
    /\ doc \in Documents
    /\ file \in Files
    /\ order \in {"fwd", "rev"}
    /\ pc = "start" /\ idx = 0 /\ off = 0 /\ ns = EmptyMap /\ fpos = 0
    /\ contents = <<>> /\ ret = None /\ last = None
    /\ input = None /\ output = None

\* ApplyBDF up to its loop: the namespace with `file` and the types.
Begin ==
    /\ pc = "start"
    /\ LET typed == BindTypes(doc.types, 1, Bind(EmptyMap, "file", FileRef))
       IN  IF typed.err # None
           THEN /\ ret' = Returned(None, Wrapped(typed.err, -1))
                /\ pc' = "done"
                /\ UNCHANGED <<ns, idx>>
           ELSE IF ~doc.hasBinary
           THEN /\ ret' = Returned(None, Wrapped(Err("MissingKey"), -1))
                /\ pc' = "done"
                /\ ns' = typed.ns
                /\ UNCHANGED idx
           ELSE /\ ns' = typed.ns
                /\ idx' = 1
                /\ pc' = "loop"
                /\ UNCHANGED ret
    /\ UNCHANGED <<doc, file, order, off, fpos, contents, last, helperVars>>

InLoop == pc = "loop" /\ idx <= Len(doc.binary)

Parsed == ParseFormatType(doc.binary[idx], St, None, order)

\* ParseFormatType returned ErrSkipped: continue
FieldSkipped ==
    /\ InLoop
    /\ Parsed = Skipped
    /\ idx' = idx + 1
    /\ last' = Last(idx, doc.binary[idx], St, "skipped", None, None)
    /\ UNCHANGED <<doc, file, order, pc, off, ns, fpos, contents, ret, helperVars>>

\* ParseFormatType returned another error
FieldParseError ==
    /\ InLoop
    /\ \E formatType \in {Parsed} :
          /\ IsErr(formatType)
          /\ ret' = Returned(None, Wrapped(formatType, idx - 1))
    /\ pc' = "done"
    /\ last' = Last(idx, doc.binary[idx], St, "parseError", None, None)
    /\ UNCHANGED <<doc, file, order, idx, off, ns, fpos, contents, helperVars>>

\* processType returned an ErrMagic
FieldMagicError ==
    /\ InLoop
    /\ \E formatType \in {Parsed} :
          /\ formatType.k = "Format"
          /\ \E r \in {processType(formatType, St, file, order)} :
                /\ r.err # None /\ r.err.kind = "Magic"
                /\ ret' = Returned(None, Unwrapped(r.err))
                /\ off' = r.st.off /\ ns' = r.st.ns /\ fpos' = r.st.fp
                /\ last' = Last(idx, doc.binary[idx], St, "magicError", formatType, r)
    /\ pc' = "done"
    /\ UNCHANGED <<doc, file, order, idx, contents, helperVars>>

\* processType returned another error
FieldOtherError ==
    /\ InLoop
    /\ \E formatType \in {Parsed} :
          /\ formatType.k = "Format"
          /\ \E r \in {processType(formatType, St, file, order)} :
                /\ r.err # None /\ r.err.kind # "Magic"
                /\ ret' = Returned(None, Wrapped(r.err, idx - 1))
                /\ off' = r.st.off /\ ns' = r.st.ns /\ fpos' = r.st.fp
                /\ last' = Last(idx, doc.binary[idx], St, "otherError", formatType, r)
    /\ pc' = "done"
    /\ UNCHANGED <<doc, file, order, idx, contents, helperVars>>

\* the field was processed
FieldOk ==
    /\ InLoop
    /\ \E formatType \in {Parsed} :
          /\ formatType.k = "Format"
          /\ \E r \in {processType(formatType, St, file, order)} :
                /\ r.err = None
                /\ contents' = IF formatType.Name # "" \/ formatType.Id # ""
                               THEN Append(contents, MetaPair(formatType, r.val))
                               ELSE contents
                /\ off' = r.st.off /\ ns' = r.st.ns /\ fpos' = r.st.fp
                /\ last' = Last(idx, doc.binary[idx], St, "ok", formatType, r)
    /\ idx' = idx + 1
    /\ UNCHANGED <<doc, file, order, pc, ret, helperVars>>

\* the loop is over: return contents, nil
Return ==
    /\ pc = "loop" /\ idx > Len(doc.binary)
    /\ ret' = Returned(contents, None)
    /\ pc' = "done"
    /\ UNCHANGED <<doc, file, order, idx, off, ns, fpos, contents, last, helperVars>>

\* The body of main's loop over the definitions, for this definition: an
\* ErrMagic is passed over, another error is kept in failedMatches, no error
\* is a match.
main ==
    /\ pc = "done"
    /\ ret' = [ret EXCEPT !.verdict = IF ret.err = None THEN "match"
                                      ELSE IF ret.err.isErrMagic THEN "passed over"
                                      ELSE "failed"]
    /\ pc' = "exit"
    /\ UNCHANGED <<doc, file, order, idx, off, ns, fpos, contents, last, helperVars>>

Next ==
    \/ Begin
    \/ FieldSkipped
    \/ FieldParseError
    \/ FieldMagicError
    \/ FieldOtherError
    \/ FieldOk
    \/ Return
    \/ main

Spec == Init /\ [][Next]_vars

-----------------------------------------------------------------------------
(* Properties of ApplyBDF (specification Spec).                            *)

\* The (id, value) pairs of a result.
PairView(pairs) == [i \in 1..Len(pairs) |-> <<pairs[i].Field.Id, pairs[i].Value>>]

Finished == pc \in {"done", "exit"}

\* The last iteration processed its field without error.
LastOk == last # None /\ last.outcome = "ok"

\* C1: after every top-level field processed without error,
\* namespace["file"]["pos"] is an Int equal to the handle's offset, and the
\* same held right before the bytes of the field were read (after its `at`
\* seek).
C1_FilePosIsOffset ==
    LastOk =>
        /\ NsFilePos(St) = IntV(off)
        /\ NsFilePos(last.r.pre) = IntV(last.r.pre.off)

\* Does the `if` of the raw field evaluate to false in st?
IfFalse(raw, st) ==
    raw.if # None /\ raw.if.k = "Lazy" /\ Evaluate(raw.if.e, st) = BoolV(FALSE)

\* a top-level field whose `if` is false: the step of ApplyBDF changes
\* nothing but the index of the next field
C2_TopLevel ==
    (InLoop /\ IfFalse(doc.binary[idx], St)) =>
        /\ UNCHANGED <<off, ns, fpos, contents, ret, pc>>
        /\ idx' = idx + 1

\* a field of a struct whose `if` is false: the iteration leaves the state
\* of the struct's namespace and handle alone, and the loop goes on (a
\* struct that was processed went through all its fields)
C2_InStruct ==
    (last # None /\ last.r # None /\ last.format.Type = "struct") =>
        /\ \A i \in 1..Len(last.r.evs) :
              IfFalse(last.r.evs[i].raw, last.r.evs[i].st0) =>
                  /\ last.r.evs[i].outcome = "skipped"
                  /\ last.r.evs[i].st1 = last.r.evs[i].st0
        /\ \A i \in 1..Len(last.r.evs) :
              last.r.evs[i].outcome = "skipped" => IfFalse(last.r.evs[i].raw, last.r.evs[i].st0)
        /\ last.outcome = "ok" => Len(last.r.evs) = Len(last.format.RawFields)

C2_Scenario ==
    (Finished /\ doc = DocIfSkip /\ file = <<2, 65, 66, 67, 68>>) =>
        /\ ret.err = None
        /\ PairView(ret.pairs) = << <<"ver", IntV(2)>> >>

\* C2: a field (top level or in a struct) whose `if` evaluates to false is
\* skipped and nothing else: stream position, file.pos and namespace are
\* unchanged, no pair is recorded, no error is returned and the next field
\* is processed; S2 gives exactly [(ver, 2)].
C2_IfFalseSkipsOnlyTheField ==
    /\ [][C2_TopLevel]_vars
    /\ [](C2_InStruct /\ C2_Scenario)

C2_Witness ==
    /\ last # None /\ last.outcome = "skipped" /\ IfFalse(last.raw, last.st0)
    /\ pc = "loop" /\ contents # <<>>

\* C3: a field with an `id` and a `switch` whose value equals a case key is
\* read with the matched case's format, and the value is bound in the
\* namespace and recorded under the switch field's own id; S3 gives
\* [(tag, 2), (body, "AB")].
C3_SwitchFieldKeepsItsId ==
    /\ (LastOk /\ last.raw.switch # None /\ last.raw.id # "") =>
          /\ last.raw.id \in DOMAIN ns
          /\ ns[last.raw.id] = last.r.val
          /\ contents # <<>>
          /\ PairView(contents)[Len(contents)] = <<last.raw.id, last.r.val>>
    /\ (Finished /\ doc = DocSwitch /\ file = <<2, 65, 66>>) =>
          /\ ret.err = None
          /\ PairView(ret.pairs) = << <<"tag", IntV(2)>>, <<"body", StrV(<<65, 66>>)>> >>

\* C5: whenever a magic check fails (at top level, in a struct, as an array
\* item) ApplyBDF returns that MagicError itself, unwrapped, and every other
\* failure is returned as an error that is not a MagicError; main passes
\* over the definition in the first case only.
C5_OnlyMagicFailuresAreErrMagic ==
    (pc = "exit" /\ ret.err # None) =>
        /\ ret.err.isErrMagic <=> (ret.err.cause.src = "checkMagic")
        /\ ret.err.isErrMagic => ret.err.cause.kind = "Magic"
        /\ ret.verdict = (IF ret.err.cause.src = "checkMagic" THEN "passed over" ELSE "failed")

\* The iterations of the struct loop of the last field that processed a
\* child, and the ids they bound.
OkEvents(evs) == {i \in 1..Len(evs) : evs[i].outcome = "ok"}

BoundBy(evs, S) == {evs[i].id : i \in S} \ {""}

\* C8: the children of a struct run against a copy of the outer namespace:
\* each child sees the outer bindings and the ids of earlier siblings; once
\* the struct is done the outer namespace has gained the struct's own id
\* only, bound to the Map from the ids of the children processed to their
\* values (skipped children and children without id are not in it).
C8_StructScope ==
    (LastOk /\ last.format.Type = "struct") =>
        LET evs == last.r.evs
            outer == last.st0.ns
            value == last.r.val
        IN  \* the outer namespace afterwards
            /\ DOMAIN ns = DOMAIN outer \cup ({last.format.Id} \ {""})
            /\ \A x \in DOMAIN outer \ {last.format.Id} : ns[x] = outer[x]
            /\ last.format.Id # "" => ns[last.format.Id] = value
            \* the Map
            /\ value.k = "Map"
            /\ DOMAIN value.v = BoundBy(evs, OkEvents(evs))
            /\ \A i \in OkEvents(evs) :
                  (evs[i].id # "" /\ evs[i].id \notin BoundBy(evs, {j \in OkEvents(evs) : j > i}))
                      => value.v[evs[i].id] = evs[i].val
            \* what each child sees
            /\ \A i \in 1..Len(evs) :
                  /\ \A x \in DOMAIN outer \ BoundBy(evs, {j \in OkEvents(evs) : j < i}) :
                        x \in DOMAIN evs[i].st0.ns /\ evs[i].st0.ns[x] = outer[x]
                  /\ \A j \in OkEvents(evs) :
                        (j < i /\ evs[j].id # ""
                           /\ evs[j].id \notin BoundBy(evs, {m \in OkEvents(evs) : j < m /\ m < i}))
                            => /\ evs[j].id \in DOMAIN evs[i].st0.ns
                               /\ evs[i].st0.ns[evs[j].id] = evs[j].val

\* a struct was processed in which a child was skipped, a child had no id,
\* and a child named an outer field and an earlier sibling
C8_Witness ==
    /\ LastOk /\ last.format.Type = "struct" /\ doc = DocStruct
    /\ \E i \in 1..Len(last.r.evs) : last.r.evs[i].outcome = "skipped"
    /\ \E i \in OkEvents(last.r.evs) : last.r.evs[i].id = ""
    /\ "sum" \in DOMAIN last.r.val.v /\ "sum" \notin DOMAIN ns
    /\ "ver" \in DOMAIN ns

IsArrayEos(raw) ==
    raw.type \in {LazyV(Sub(Id("array"), Id("eos"))), TypeV("array", IdentV("eos"))}

\* Does the `while` of the raw field hold in st (true when there is none)?
WhileHolds(raw, st) ==
    raw.while = None \/ ResultAsBoolean(Force(raw.while, st)).v

\* C9: for an array[eos] field the `while` is evaluated before every item,
\* the first included, and the loop stops as soon as it is false; the end of
\* the stream ends the loop without error; the value is the list of the
\* items read, in order.  S4 gives items = [10, 11, 12, 13].
C9_ArrayEosLoop ==
    /\ (last # None /\ IsArrayEos(last.raw)) =>
          /\ last.outcome = "ok"
          /\ last.r.val = ListV([i \in 1..Len(last.r.evs) |-> last.r.evs[i].val])
          /\ \A i \in 1..Len(last.r.evs) : WhileHolds(last.raw, last.r.evs[i].st0)
          /\ ~WhileHolds(last.raw, last.r.mid) \/ off >= Len(file)
    /\ (Finished /\ doc = DocArrayWhile /\ file = <<10, 11, 12, 13, 14, 15>>) =>
          /\ ret.err = None
          /\ PairView(ret.pairs) = << <<"items", ListV(<<IntV(10), IntV(11), IntV(12), IntV(13)>>)>> >>

\* C10: a `valid` that evaluates to false makes ApplyBDF fail with an error
\* holding the field's id and the value read, and with no pairs at all;
\* every error ApplyBDF returns comes with no pairs.
C10_ErrorsCarryNoPairs ==
    /\ (Finished /\ ret.err # None) => ret.pairs = None
    /\ (last # None /\ last.r # None /\ last.r.mid # None /\ last.format.Valid # None
          /\ Evaluate(last.format.Valid.e, last.r.mid) = BoolV(FALSE)) =>
          /\ Finished
          /\ ret.pairs = None
          /\ ret.err # None
          /\ ret.err.cause.kind = "Invalid"
          /\ ret.err.cause.id = last.format.Id
          /\ last.format.Id # "" => ret.err.cause.val = last.r.mid.ns[last.format.Id]

\* a validation failed after an earlier field had given a pair
C10_Witness ==
    /\ Finished /\ ret.err # None /\ ret.err.cause.kind = "Invalid"
    /\ contents # <<>> /\ ret.pairs = None

\* The field processed last got as far as reading its bytes.
LastRead == last # None /\ last.r # None /\ last.r.pre # None

\* Is the `at` of the raw field the number n or [n, "start"]?
AtStart(raw, n) ==
    \/ raw.at = IntV(n)
    \/ raw.at = ListV(<<IntV(n), StrV(StartStr)>>)

MemberIds ==
    UNION {{doc.binary[i].members.v[j].id : j \in 1..Len(doc.binary[i].members.v)} :
             i \in {x \in 1..Len(doc.binary) : doc.binary[x].members # None}}

\* C12: a var field without `at` consumes no bytes (stream position and
\* file.pos are the same before and after it); its value is the one its
\* expression has when the var field is processed, and its id stays bound
\* to that value when later fields rebind the names the expression used.
C12_VarCapturesItsValue ==
    /\ (LastOk /\ last.format.Type = "var" /\ last.format.At = None) =>
          /\ off = last.st0.off
          /\ NsFilePos(St) = NsFilePos(last.st0)
          /\ last.r.val = Force(last.format.VarValue, last.r.pre)
          /\ last.format.Id # "" => ns[last.format.Id] = last.r.val
    /\ \A i \in 1..Len(contents) :
          (/\ contents[i].Field.Type = "var"
           /\ contents[i].Field.Id \notin {"", "file"} \cup MemberIds
           /\ \A j \in (i + 1)..Len(contents) : contents[j].Field.Id # contents[i].Field.Id) =>
              ns[contents[i].Field.Id] = contents[i].Value

\* C13: a run's result is a function of the definition and the file alone;
\* the cases of a switch are scanned in source order, so of several case
\* keys that equal the switch value the one written first is selected on
\* every run, whatever order this run's iteration over the Map takes.
C13_SwitchScansInSourceOrder ==
    (InLoop /\ doc.binary[idx].switch # None) =>
        processSwitch(doc.binary[idx], St, order) = processSwitch(doc.binary[idx], St, "fwd")

\* C20: forcing the Lazy of a call evaluates the built-in: with `name` bound
\* to a 4-byte String, `len(name)` yields Int 4 and `valid: len(name) == 4`
\* holds; no run ends in the error "evaluation undefined" for a Call node.
C20_CallAppliesTheBuiltin ==
    /\ (Finished /\ doc = DocLen /\ Len(file) >= 4) =>
          /\ ret.err = None
          /\ "n" \in DOMAIN ns /\ ns["n"] = IntV(4)
    /\ (Finished /\ doc = DocValidLen /\ Len(file) >= 4) => ret.err = None
    /\ (Finished /\ ret.err # None) => ret.err.cause # UndefinedFor("Call")

-----------------------------------------------------------------------------
(* Helper specification: readInt on every integer type, both byte orders   *)
(* and every buffer over IntBytes.                                         *)

IntBytes == {1, 128, 255}

Idle ==
    /\ doc = None /\ file = <<>> /\ order = "fwd" /\ pc = "idle" /\ idx = 0
    /\ off = 0 /\ ns = EmptyMap /\ fpos = 0 /\ contents = <<>> /\ ret = None
    /\ last = None

InitInt ==
    /\ Idle
    /\ \E t \in IntTypes, e \in {"little", "big"} :
         \E b \in [1..NumBytes(t) -> IntBytes] :
            input = [type |-> t, endian |-> e, bytes |-> b]
    /\ output = None

ReadIntStep ==
    /\ pc = "idle" /\ output = None /\ "type" \in DOMAIN input
    /\ output' = readInt(input.bytes, 0, input.type, input.endian)
    /\ UNCHANGED <<applierVars, input>>

SpecInt == InitInt /\ [][ReadIntStep]_vars

\* What the N/8 bytes mean: unsigned for uintN, two's complement for intN.
Interpretation(type, endian, bytes) ==
    LET be == IF endian = "big" THEN bytes ELSE Reverse(bytes)
    IN  IF type \in SignedTypes /\ be[1] >= 128
        THEN Big(TRUE, StripZeros(WordNeg(be)))
        ELSE Big(FALSE, StripZeros(be))

\* C7: every Int produced by a read lies within the bounds-table range of
\* its type and equals the unsigned (uintN) or sign-extended two's complement
\* (intN) interpretation of the bytes in the declared endianness.
C7_ReadIntInterpretsBytes ==
    (output # None /\ "type" \in DOMAIN input) =>
        /\ output.err = "none"
        /\ IntegerInBounds(input.type, output.val)
        /\ output.val = Interpretation(input.type, input.endian, input.bytes)

-----------------------------------------------------------------------------
(* Helper specification: checkMagic on every list of at most MaxTags tags  *)
(* over MagicContents, every file over MagicBytes of at most MaxFileLen    *)
(* bytes and every base offset within the file.                            *)

MaxTags == 2

MagicContents == {<<65>>, <<65, 0>>, <<65, 66>>, <<66>>}

MagicBytes == {0, 65, 66}

InitMagic ==
    /\ Idle
    /\ \E tags \in SeqsUpTo({MagicTag(c, 0) : c \in MagicContents}, MaxTags) :
         \E bytes \in SeqsUpTo(MagicBytes, MaxFileLen) :
            \E b \in 0..Len(bytes) :
               input = [tags |-> tags, bytes |-> bytes, b |-> b]
    /\ output = None

CheckMagicStep ==
    /\ pc = "idle" /\ output = None /\ "tags" \in DOMAIN input
    /\ output' = checkMagic(input.bytes, input.b,
                            [DefaultFormat EXCEPT !.Type = "magic", !.Match = input.tags])
    /\ UNCHANGED <<applierVars, input>>

SpecMagic == InitMagic /\ [][CheckMagicStep]_vars

\* Are the bytes of the file at offset o exactly the contents c?
BytesAt(bytes, o, c) ==
    /\ o + Len(c) <= Len(bytes)
    /\ \A j \in 1..Len(c) : bytes[o + j] = c[j]

TagMatches(bytes, b, tag) == BytesAt(bytes, b + tag.Offset, tag.Contents)

\* C4: a magic read at base offset b succeeds on the first tag, in order,
\* whose bytes at b + tag.offset equal its contents exactly; when no tag
\* matches, also when fewer bytes are left than a tag is long, it fails with
\* the MagicError of offset b.
C4_MagicMatchesExactly ==
    (output # None /\ "tags" \in DOMAIN input) =>
        LET hits == {i \in 1..Len(input.tags) : TagMatches(input.bytes, input.b, input.tags[i])}
        IN  IF hits # {}
            THEN /\ output.err = None
                 /\ output.val = StrV(input.tags[CHOOSE i \in hits : \A j \in hits : i <= j].Contents)
            ELSE /\ output.err # None
                 /\ output.err.kind = "Magic"
                 /\ output.err.off = input.b

-----------------------------------------------------------------------------
(* Helper specification: processType on an enum[uint8] field named `kind`  *)
(* for every list of at most MaxMembers members out of EnumValues and      *)
(* every one-byte file over EnumBytes.                                     *)

MaxMembers == 3

EnumValues == {MapV([x \in {"from", "to"} |-> IF x = "from" THEN IntV(0) ELSE IntV(16)]),
               MapV([x \in {"from", "to"} |-> IF x = "from" THEN IntV(32) ELSE IntV(34)]),
               IntV(255), IntV(32)}

EnumBytes == {0, 15, 16, 32, 33, 34, 255}

\* members named m1, m2, ... in the order given
MemberName(i) == CASE i = 1 -> "m1" [] i = 2 -> "m2" [] i = 3 -> "m3" [] OTHER -> "m"

InitEnum ==
    /\ Idle
    /\ \E values \in SeqsUpTo(EnumValues, MaxMembers) :
         \E v \in EnumBytes :
            input = [members |-> [i \in 1..Len(values) |-> [Id |-> MemberName(i), Value |-> values[i]]],
                     v |-> v]
    /\ output = None

ProcessEnumStep ==
    /\ pc = "idle" /\ output = None /\ "members" \in DOMAIN input
    /\ output' = processType([DefaultFormat EXCEPT !.Type = "enum", !.Id = "kind",
                                                   !.EnumType = "uint8",
                                                   !.EnumMembers = input.members],
                             State(0, Bind(EmptyMap, "file", FileRef), 0, 0),
                             <<input.v>>, "fwd")
    /\ UNCHANGED <<applierVars, input>>

SpecEnum == InitEnum /\ [][ProcessEnumStep]_vars

\* Does the member value m match v?
MemberMatches(m, v) ==
    IF m.k = "Int" THEN v = m.v
    ELSE m.v["from"].v <= v /\ v < m.v["to"].v

\* C6: an enum field that read v succeeds with v if and only if at least
\* one member matches v (an Int member equal to v, a range member with
\* from <= v < to), whatever the order of the members; when none matches it
\* fails with an error naming the field.
C6_EnumSucceedsIffSomeMemberMatches ==
    (output # None /\ "members" \in DOMAIN input) =>
        IF \E i \in 1..Len(input.members) : MemberMatches(input.members[i].Value, input.v)
        THEN output.err = None /\ output.val = IntV(input.v)
        ELSE /\ output.err # None
             /\ output.err.kind = "NotEnumerated"
             /\ output.err.id = "kind"

-----------------------------------------------------------------------------
(* Helper specification: loading a definition (ParseDef of the driver).    *)
(* The source is lexed, the tokens are parsed and the tree is evaluated    *)
(* with a nil namespace, one stage per step.                               *)

\* Sources of arbitrary content (over LexAlphabet) have at most this many
\* characters.
MaxSrcLen == 3

LexAlphabet == {"!", "|", "&", "=", "a", "_", " ", "1"}

\* the PNG magic literal "\x89PNG\r\n\x1a\n"
SrcPng ==
    <<"\"", BSL, "x", "8", "9", "P", "N", "G", BSL, "r", BSL, "n",
      BSL, "x", "1", "a", BSL, "n", "\"">>

\* "\xHH" for two hex digits
SrcHex(h1, h2) == <<"\"", BSL, "x", h1, h2, "\"">>

\* "\ooo" for three octal digits
SrcOct(o1, o2, o3) == <<"\"", BSL, o1, o2, o3, "\"">>

HexDigits == {"0", "7", "8", "9", "a", "F"}

OctDigits == {"0", "1", "3", "7"}

LexSources ==
    {SrcPng,
     <<"a", " ", "/", "/", " ", "!", "\n", "b">>,
     <<"'", "/", "/", "'", " ", "/", " ", "x">>,
     <<"a", " ", "!", "=", " ", "!", "b">>,
     <<"a", "|", "b", " ", "&", " ", "c">>}
    \cup {SrcHex(h1, h2) : h1 \in HexDigits, h2 \in HexDigits}
    \cup {SrcOct(o1, o2, o3) : o1 \in OctDigits, o2 \in OctDigits, o3 \in OctDigits}

\* 0x10
SrcHex16 ==
    <<"0", "x", "1", "0">>

\* 0o17
SrcOct17 ==
    <<"0", "o", "1", "7">>

\* 0b101
SrcBin101 ==
    <<"0", "b", "1", "0", "1">>

\* 010
SrcZeroTen ==
    <<"0", "1", "0">>

\* 08
SrcZeroEight ==
    <<"0", "8">>

\* 10
SrcTen ==
    <<"1", "0">>

\* 1.50
SrcFloat ==
    <<"1", ".", "5", "0">>

\* 1.2.3
SrcTwoDots ==
    <<"1", ".", "2", ".", "3">>

\* -a + b
SrcNegAPlusB ==
    <<"-", "a", " ", "+", " ", "b">>

\* !a && b
SrcNotAAndB ==
    <<"!", "a", " ", "&", "&", " ", "b">>

\* -2 + 3
SrcNegTwoPlusThree ==
    <<"-", "2", " ", "+", " ", "3">>

\* 2 + 3 * 4
SrcMulAdd ==
    <<"2", " ", "+", " ", "3", " ", "*", " ", "4">>

\* 1 + 2 < 4
SrcAddLt ==
    <<"1", " ", "+", " ", "2", " ", "<", " ", "4">>

\* 1 < 2 && 0
SrcLtAnd ==
    <<"1", " ", "<", " ", "2", " ", "&", "&", " ", "0">>

\* 1 && 0 || 1
SrcAndOr ==
    <<"1", " ", "&", "&", " ", "0", " ", "|", "|", " ", "1">>

\* {if: ver < 2}
SrcMapIf ==
    <<"{", "i", "f", ":", " ", "v", "e", "r", " ", "<", " ", "2", "}">>

\* (a == b)
SrcParenEq ==
    <<"(", "a", " ", "=", "=", " ", "b", ")">>

\* [x && y]
SrcListAnd ==
    <<"[", "x", " ", "&", "&", " ", "y", "]">>

\* a[i < 2]
SrcSubLt ==
    <<"a", "[", "i", " ", "<", " ", "2", "]">>

\* f(a || b)
SrcCallOr ==
    <<"f", "(", "a", " ", "|", "|", " ", "b", ")">>

\* {n: 1 + 2}
SrcMapSum ==
    <<"{", "n", ":", " ", "1", " ", "+", " ", "2", "}">>

\* {at: [file.pos - 4, "start"], value: prev_field * 2}
SrcFieldAt ==
    <<"{", "a", "t", ":", " ", "[", "f", "i", "l", "e", ".", "p", "o", "s", " ", "-",
      " ", "4", ",", " ", "\"", "s", "t", "a", "r", "t", "\"", "]", ",", " ", "v", "a",
      "l", "u", "e", ":", " ", "p", "r", "e", "v", "_", "f", "i", "e", "l", "d", " ",
      "*", " ", "2", "}">>

\* {type: uint8, if: version > 1}
SrcFieldIf ==
    <<"{", "t", "y", "p", "e", ":", " ", "u", "i", "n", "t", "8", ",", " ", "i", "f",
      ":", " ", "v", "e", "r", "s", "i", "o", "n", " ", ">", " ", "1", "}">>

\* {type: byte[4], id: tag, n: 1 + 2, b: !0}
SrcFieldEager ==
    <<"{", "t", "y", "p", "e", ":", " ", "b", "y", "t", "e", "[", "4", "]", ",", " ",
      "i", "d", ":", " ", "t", "a", "g", ",", " ", "n", ":", " ", "1", " ", "+", " ",
      "2", ",", " ", "b", ":", " ", "!", "0", "}">>

\* [-x, len(1), byte[n], uint8, [x]]
SrcListLazy ==
    <<"[", "-", "x", ",", " ", "l", "e", "n", "(", "1", ")", ",", " ", "b", "y", "t",
      "e", "[", "n", "]", ",", " ", "u", "i", "n", "t", "8", ",", " ", "[", "x", "]",
      "]">>

\* {type: var, value: len(name)}
SrcFieldLen ==
    <<"{", "t", "y", "p", "e", ":", " ", "v", "a", "r", ",", " ", "v", "a", "l", "u",
      "e", ":", " ", "l", "e", "n", "(", "n", "a", "m", "e", ")", "}">>

\* {valid: len(name) == 4}
SrcFieldValid ==
    <<"{", "v", "a", "l", "i", "d", ":", " ", "l", "e", "n", "(", "n", "a", "m", "e",
      ")", " ", "=", "=", " ", "4", "}">>

\* {a: 1, a: 2}
SrcTwoKeys ==
    <<"{", "a", ":", " ", "1", ",", " ", "a", ":", " ", "2", "}">>

\* {
SrcOpenBrace ==
    <<"{">>

LoadSources ==
    {SrcHex16, SrcOct17, SrcBin101, SrcZeroTen,
     SrcZeroEight, SrcTen, SrcFloat, SrcTwoDots,
     SrcNegAPlusB, SrcNotAAndB, SrcNegTwoPlusThree, SrcMulAdd,
     SrcAddLt, SrcLtAnd, SrcAndOr, SrcMapIf,
     SrcParenEq, SrcListAnd, SrcSubLt, SrcCallOr,
     SrcMapSum, SrcFieldAt, SrcFieldIf, SrcFieldEager,
     SrcListLazy, SrcFieldLen, SrcFieldValid, SrcTwoKeys,
     SrcOpenBrace}

Sources == SeqsUpTo(LexAlphabet, MaxSrcLen) \cup LexSources \cup LoadSources

Loaded(stage, lex, tree, res) == [stage |-> stage, lex |-> lex, tree |-> tree, res |-> res]

InitLoad ==
    /\ doc = None /\ file = <<>> /\ pc = "idle" /\ idx = 0
    /\ off = 0 /\ ns = EmptyMap /\ fpos = 0 /\ contents = <<>> /\ ret = None
    /\ last = None
    /\ order \in {"fwd", "rev"}
    /\ \E src \in Sources :
         \E cap \in {Len(src), Len(src) + 2} :
            input = [src |-> src, cap |-> cap]
    /\ output = None

\* "found empty bdf": ParseDef exits before lexing
EmptyStep ==
    /\ pc = "idle" /\ output = None /\ "src" \in DOMAIN input
    /\ input.src = <<>>
    /\ output' = Loaded("exit", None, None, None)
    /\ UNCHANGED <<applierVars, input>>

\* lex.Process() in ParseDef
LexStep ==
    /\ pc = "idle" /\ output = None /\ "src" \in DOMAIN input
    /\ input.src # <<>>
    /\ output' = Loaded("lexed", Process(input.src, input.cap), None, None)
    /\ UNCHANGED <<applierVars, input>>

\* ps.Parse() in ParseDef, reached when the lexer returned no error
ParseStep ==
    /\ pc = "idle" /\ output # None /\ output.stage = "lexed"
    /\ output.lex.err = None
    /\ output' = [output EXCEPT !.stage = "parsed", !.tree = Parse(output.lex.Tokens)]
    /\ UNCHANGED <<applierVars, input>>

\* bindef.Evaluate(tree, nil) in ParseDef, reached when the parser returned
\* no error
EvalStep ==
    /\ pc = "idle" /\ output # None /\ output.stage = "parsed"
    /\ output.tree.err = None
    /\ output' = [output EXCEPT !.stage = "evaluated",
                                !.res = Evaluate(output.tree.node, LoadState(order))]
    /\ UNCHANGED <<applierVars, input>>

NextLoad == EmptyStep \/ LexStep \/ ParseStep \/ EvalStep

SpecLoad == InitLoad /\ [][NextLoad]_vars

\* The lexer succeeded on the source.
LexedOk == output # None /\ output.stage # "exit" /\ output.lex.err = None

Whitespace == {" ", "\t", "\n", "\r"}

\* Is the byte at offset i of the source inside the span of token t?
InSpan(t, i) == t.Start <= i /\ i < t.End

\* Is the byte at offset i inside a line comment: after a `//` that is not
\* part of a token and before the next newline?
InComment(src, tokens, i) ==
    \E j \in 0..i :
        /\ j + 1 < Len(src) /\ src[j + 1] = "/" /\ src[j + 2] = "/"
        /\ \A n \in 1..Len(tokens) : ~InSpan(tokens[n], j)
        /\ \A m \in j..i : src[m + 1] # "\n"

\* The span of t covers exactly the bytes t consumed: the text of the token,
\* or for a string the literal from its opening to its closing quote.
SpanExact(src, t) ==
    /\ 0 <= t.Start /\ t.Start < t.End /\ t.End <= Len(src)
    /\ IF t.Kind = "String"
       THEN src[t.Start + 1] \in {"'", "\""} /\ src[t.End] = src[t.Start + 1]
       ELSE SubSeq(src, t.Start + 1, t.End) = t.Value

\* C14: for every source on which the lexer succeeds, the token spans have
\* non-decreasing start offsets and are pairwise disjoint, each span covers
\* exactly the bytes the token consumed (a one-character operator has a span
\* of length 1), and every byte that is neither whitespace nor inside a
\* comment lies in exactly one span.
C14_SpansCoverTheSource ==
    LexedOk =>
        LET src == input.src
            tokens == output.lex.Tokens
        IN  /\ \A n \in 1..(Len(tokens) - 1) :
                  /\ tokens[n].Start <= tokens[n + 1].Start
                  /\ tokens[n].End <= tokens[n + 1].Start
            /\ \A n \in 1..Len(tokens) : SpanExact(src, tokens[n])
            /\ \A i \in 0..(Len(src) - 1) :
                  (src[i + 1] \notin Whitespace /\ ~InComment(src, tokens, i)) =>
                      Cardinality({n \in 1..Len(tokens) : InSpan(tokens[n], i)}) = 1

\* The lexer produced exactly one String token with the given bytes.
OneString(lex, bytes) ==
    /\ lex.err = None
    /\ Len(lex.Tokens) = 1
    /\ lex.Tokens[1].Kind = "String"
    /\ lex.Tokens[1].Bytes = bytes

\* C15: in a string literal \xHH yields the byte HH for every pair of hex
\* digits, and \ooo the byte with that octal value for every three octal
\* digits up to 377; the PNG magic literal lexes to one String token holding
\* the bytes 89 50 4E 47 0D 0A 1A 0A.
C15_EscapesYieldTheirByte ==
    (output # None /\ output.stage # "exit") =>
        /\ \A h1 \in HexDigits, h2 \in HexDigits :
              input.src = SrcHex(h1, h2) =>
                  OneString(output.lex, <<DigitVal(h1, 16) * 16 + DigitVal(h2, 16)>>)
        /\ \A o1 \in OctDigits \ {"7"}, o2 \in OctDigits, o3 \in OctDigits :
              input.src = SrcOct(o1, o2, o3) =>
                  OneString(output.lex, <<DigitVal(o1, 8) * 64 + DigitVal(o2, 8) * 8
                                          + DigitVal(o3, 8)>>)
        /\ input.src = SrcPng =>
              OneString(output.lex, <<137, 80, 78, 71, 13, 10, 26, 10>>)

\* The definition was lexed, parsed and evaluated: what ParseDef returns.
LoadedOk == output # None /\ output.stage = "evaluated" /\ ~IsErr(output.res)

\* The source was lexed and parsed, without error, to the tree.
ParsesTo(src, tree) ==
    (input.src = src /\ output # None /\ output.stage = "lexed") =>
        /\ output.lex.err = None
        /\ Parse(output.lex.Tokens) = ParseResult(None, tree, Len(output.lex.Tokens))

\* The definition evaluates to the Result.
LoadsTo(src, res) ==
    (input.src = src /\ output # None /\ output.stage \notin {"lexed", "parsed"}) =>
        /\ output.stage = "evaluated"
        /\ output.res = res

\* The evaluation of the definition ends in a SyntaxError.
LoadFails(src) ==
    (input.src = src /\ output # None /\ output.stage \notin {"lexed", "parsed"}) =>
        \/ output.stage = "evaluated" /\ output.res = Err("SyntaxError")
        \/ output.stage = "exit"

\* C16: an integer literal with a base prefix is lexed as one Integer token
\* and evaluates to the Int in that base (0x10 is 16, 0o17 is 15, 0b101 is
\* 5); a literal without prefix is read in base 10 (010 is 10, 08 is 8); a
\* literal with digits that are invalid for its base is a SyntaxError.
C16_IntegerLiterals ==
    /\ \A src \in {SrcHex16, SrcOct17, SrcBin101, SrcZeroTen, SrcZeroEight, SrcTen} :
          (input.src = src /\ output # None /\ output.stage # "exit") =>
              /\ output.lex.err = None
              /\ Len(output.lex.Tokens) = 1
              /\ output.lex.Tokens[1].Kind = "Integer"
              /\ output.lex.Tokens[1].Value = src
    /\ LoadsTo(SrcHex16, IntV(16))
    /\ LoadsTo(SrcOct17, IntV(15))
    /\ LoadsTo(SrcBin101, IntV(5))
    /\ LoadsTo(SrcTen, IntV(10))
    /\ LoadsTo(SrcZeroTen, IntV(10))
    /\ LoadsTo(SrcZeroEight, IntV(8))

\* the literal node of an identifier or a number written at offset start
IdentAt(name, start) == LiteralNode(Token("Identifier", <<name>>, <<>>, start, start + 1))

IntAt(digit, start) == LiteralNode(Token("Integer", <<digit>>, <<>>, start, start + 1))

\* C17: unary operators bind tighter than every binary operator: `-a + b`
\* parses as BinOp(+, UnaryOp(-, a), b) and `!a && b` as
\* BinOp(&&, UnaryOp(!, a), b), and `-2 + 3` evaluates to 1; multiplicative
\* binds tighter than additive, additive tighter than comparison, comparison
\* tighter than &&, && tighter than ||.
C17_UnaryBindsTightest ==
    /\ ParsesTo(SrcNegAPlusB,
                Bin("+", [op |-> "unary", f |-> "-", e |-> IdentAt("a", 1)], IdentAt("b", 5)))
    /\ ParsesTo(SrcNotAAndB,
                Bin("&&", [op |-> "unary", f |-> "!", e |-> IdentAt("a", 1)], IdentAt("b", 6)))
    /\ LoadsTo(SrcNegTwoPlusThree, IntV(1))
    /\ ParsesTo(SrcMulAdd,
                Bin("+", IntAt("2", 0), Bin("*", IntAt("3", 4), IntAt("4", 8))))
    /\ ParsesTo(SrcAddLt,
                Bin("<", Bin("+", IntAt("1", 0), IntAt("2", 4)), IntAt("4", 8)))
    /\ ParsesTo(SrcLtAnd,
                Bin("&&", Bin("<", IntAt("1", 0), IntAt("2", 4)), IntAt("0", 9)))
    /\ ParsesTo(SrcAndOr,
                Bin("||", Bin("&&", IntAt("1", 0), IntAt("0", 5)), IntAt("1", 10)))

\* The source is lexed and parsed without error, and all of it is parsed.
ParsesWhole(src) ==
    (input.src = src /\ output # None /\ output.stage = "lexed") =>
        /\ output.lex.err = None
        /\ Parse(output.lex.Tokens).err = None
        /\ Parse(output.lex.Tokens).pos = Len(output.lex.Tokens)

\* C18: map keys and values, list items, parenthesized expressions,
\* subscripts and call arguments accept expressions of every precedence
\* level: `{if: ver < 2}` parses to a Map whose value is BinOp(<, ver, 2),
\* and `(a == b)`, `[x && y]`, `a[i < 2]` and `f(a || b)` parse without error.
C18_FullExpressionsInside ==
    /\ ParsesTo(SrcMapIf,
                MapNode(<<[key |-> LiteralNode(Token("Identifier", <<"i", "f">>, <<>>, 1, 3)),
                           val |-> Bin("<",
                                       LiteralNode(Token("Identifier", <<"v", "e", "r">>,
                                                         <<>>, 5, 8)),
                                       IntAt("2", 11))]>>))
    /\ ParsesWhole(SrcParenEq)
    /\ ParsesWhole(SrcListAnd)
    /\ ParsesWhole(SrcSubLt)
    /\ ParsesWhole(SrcCallOr)
    /\ ParsesWhole(SrcMapSum)

\* Does the expression contain an Attr node or an identifier that is not a
\* reserved type name, at any depth of operators, subscripts or calls?
RECURSIVE NeedsNamespace(_)
NeedsNamespace(node) ==
    CASE node.op = "attr" -> TRUE
      [] node.op = "literal" ->
            node.tok.Kind = "Identifier" /\ Str(node.tok.Value) \notin AvailableTypeNames
      [] node.op = "bin" -> NeedsNamespace(node.l) \/ NeedsNamespace(node.r)
      [] node.op = "unary" -> NeedsNamespace(node.e)
      [] node.op = "sub" -> NeedsNamespace(node.obj) \/ NeedsNamespace(node.item)
      [] node.op = "call" ->
            NeedsNamespace(node.e) \/ \E i \in 1..Len(node.args) : NeedsNamespace(node.args[i])
      [] OTHER -> FALSE

\* The value of an entry is the Lazy of its expression when the expression
\* needs a namespace, and is no Lazy otherwise.
LazyExactlyWhenNeeded(expr, val) ==
    IF NeedsNamespace(expr) THEN val = LazyV(expr) ELSE val.k # "Lazy"

\* C19: when a Map or List literal is evaluated without a namespace, an
\* entry is wrapped as Lazy exactly when its expression contains an Attr
\* node or an identifier that is not a type name, and is evaluated eagerly
\* otherwise; so loading a definition whose fields use
\* `at: [file.pos - 4, "start"]`, `if: version > 1` or `value: prev_field * 2`
\* does not fail, and the Lazy values of those keys wait for the applier.
C19_LazyExactlyWhenNeeded ==
    /\ (LoadedOk /\ output.tree.node.op = "map"
            /\ Len(output.res.entries) = Len(output.tree.node.items)) =>
          \A i \in 1..Len(output.res.entries) :
             LazyExactlyWhenNeeded(output.tree.node.items[i].val, output.res.entries[i].val)
    /\ (LoadedOk /\ output.tree.node.op = "list") =>
          /\ Len(output.res.v) = Len(output.tree.node.items)
          /\ \A i \in 1..Len(output.res.v) :
                LazyExactlyWhenNeeded(output.tree.node.items[i], output.res.v[i])
    /\ \A src \in {SrcFieldAt, SrcFieldIf} :
          (input.src = src /\ output # None /\ output.stage \in {"lexed", "parsed"}) =>
              /\ output.lex.err = None
              /\ output.stage = "parsed" => output.tree.err = None
    /\ \A src \in {SrcFieldAt, SrcFieldIf} :
          (input.src = src /\ output # None /\ output.stage = "evaluated") =>
              /\ ~IsErr(output.res)
              /\ \A i \in 1..Len(output.res.entries) :
                    output.res.entries[i].key \in {IdentV("if"), IdentV("value")} =>
                        output.res.entries[i].val.k = "Lazy"

-----------------------------------------------------------------------------
(* Helper specification: Evaluate on expression trees, in the namespace    *)
(* that ParseDef evaluates a document in.                                   *)

\* The Ints of the trees run from -MaxNum to MaxNum.
MaxNum == 2

\* The Lists of the trees have up to this many items.
MaxListLen == 3

\* the node of the integer literal with the digit d
IntNode(d) == LiteralNode(Token("Integer", <<d>>, <<>>, 0, 1))

\* the node of the string literal with the one letter ch, whose byte is b
StrNode(ch, b) == LiteralNode(Token("String", <<ch>>, <<b>>, 0, 3))

\* the node of the identifier with the one letter ch
IdNode(ch) == LiteralNode(Token("Identifier", <<ch>>, <<>>, 0, 1))

\* The operands of the trees, in tuples (values of different kinds do not
\* go into one set).
EvalNumbers ==
    [i \in 1..(2 * MaxNum + 1) |-> Lit(IntV(i - MaxNum - 1))]
        \o <<Lit(FloatLit(0, <<>>)), Lit(FloatLit(1, <<5>>)), Lit(FloatLit(2, <<>>))>>

EvalValues ==
    EvalNumbers \o <<Lit(BoolV(TRUE)), Lit(BoolV(FALSE)), Lit(StrV(<<97>>)), Lit(StrV(<<>>)),
                     IdNode("x"), ListNode(<<>>), ListNode(<<IntNode("1")>>)>>

\* (1 / z == 1) and (1 % z == 1)
Guard(f, z) == Bin("==", Bin(f, Lit(IntV(1)), z), Lit(IntV(1)))

Guarded ==
    <<Guard("/", Lit(IntV(0))), Guard("/", Lit(IntV(2))), Guard("/", Lit(FloatLit(0, <<>>))),
      Guard("%", Lit(IntV(0))), Guard("%", Lit(IntV(2))), Guard("%", Lit(FloatLit(0, <<>>)))>>

\* the List literal [10, 11, ...] of length n
ListOfLen(n) == ListNode([i \in 1..n |-> Lit(IntV(9 + i))])

ListIndexes ==
    [i \in 1..(2 * MaxListLen + 2) |-> Lit(IntV(i - MaxListLen - 1))]
        \o <<Lit(StrV(<<97>>)), Lit(FloatLit(1, <<>>))>>

\* {1: "a", 2: "b"}
MapOneTwo ==
    MapNode(<<[key |-> IntNode("1"), val |-> StrNode("a", 97)],
              [key |-> IntNode("2"), val |-> StrNode("b", 98)]>>)

\* {"a": 1, k: 2, true: 3}
MapMixed ==
    MapNode(<<[key |-> StrNode("a", 97), val |-> IntNode("1")],
              [key |-> IdNode("k"), val |-> IntNode("2")],
              [key |-> Lit(BoolV(TRUE)), val |-> IntNode("3")]>>)

Maps == <<MapOneTwo, MapMixed, MapNode(<<>>)>>

MapKeys ==
    <<IntNode("1"), IntNode("2"), IntNode("3"), StrNode("a", 97), StrNode("b", 98),
      IdNode("k"), IdNode("x"), Lit(BoolV(TRUE)), Lit(BoolV(FALSE)), ListNode(<<>>)>>

\* A tree and the group it is drawn from: a division or a remainder of two
\* values ("arith"), a || or && ("logic"), a subscript of a List ("list")
\* or of a Map ("map").
Drawn(group, tree) == [group |-> group, tree |-> tree]

InitEval ==
    /\ doc = None /\ file = <<>> /\ pc = "idle" /\ idx = 0
    /\ off = 0 /\ ns = EmptyMap /\ fpos = 0 /\ contents = <<>> /\ ret = None
    /\ last = None
    /\ order \in {"fwd", "rev"}
    /\ \/ \E f \in {"/", "%"} : \E i, j \in 1..Len(EvalValues) :
            input = Drawn("arith", Bin(f, EvalValues[i], EvalValues[j]))
       \/ \E f \in {"||", "&&"} : \E i \in 1..Len(EvalValues) :
            \E j \in 1..Len(EvalValues \o Guarded) :
                input = Drawn("logic", Bin(f, EvalValues[i], (EvalValues \o Guarded)[j]))
       \/ \E n \in 0..MaxListLen : \E i \in 1..Len(ListIndexes) :
            input = Drawn("list", Sub(ListOfLen(n), ListIndexes[i]))
       \/ \E m \in 1..Len(Maps) : \E i \in 1..Len(MapKeys) :
            input = Drawn("map", Sub(Maps[m], MapKeys[i]))
    /\ output = None

\* bindef.Evaluate(tree, nil)
EvaluateStep ==
    /\ pc = "idle" /\ output = None /\ "tree" \in DOMAIN input
    /\ output' = [res |-> Evaluate(input.tree, LoadState(order))]
    /\ UNCHANGED <<applierVars, input>>

SpecEval == InitEval /\ [][EvaluateStep]_vars

\* the tree has been evaluated
Evaluated == output # None /\ "tree" \in DOMAIN input

\* what an operand of the tree evaluates to by itself
Operand(node) == Evaluate(node, LoadState(order))

\* C21: || is true when its left operand coerces to true, && is false when
\* its left operand coerces to false, whatever the right operand is: the
\* right operand is not evaluated and cannot make the operation fail.
C21_LogicalShortCircuit ==
    (Evaluated /\ input.group = "logic") =>
        LET left == ResultAsBoolean(Operand(input.tree.l))
        IN  /\ (input.tree.f = "||" /\ left.ok /\ left.v) => output.res = BoolV(TRUE)
            /\ (input.tree.f = "&&" /\ left.ok /\ ~left.v) => output.res = BoolV(FALSE)

\* the numbers zero
IsZero(x) == IsNumber(x) /\ AsRat(x).num = 0

\* C22: a / b and a % b with a an Int or a Float and b an Int 0 or a Float
\* 0.0 evaluate to a DomainError, never to a value and never to a crash.
C22_DivisionByZeroIsDomainError ==
    (Evaluated /\ input.group = "arith"
        /\ IsNumber(Operand(input.tree.l)) /\ IsZero(Operand(input.tree.r)))
        => output.res = Err("DomainError")

\* Are two keys equal by value: Ident by name, String by bytes, Int by number?
EqualKey(x, y) == KindOf(x) = KindOf(y) /\ x = y

\* C28: subscripting a Map with an Ident, a String or an Int finds the entry
\* whose key is equal by value, and gives AccessError only when no key of
\* the Map is equal to it.
C28_MapSubscriptByValue ==
    (Evaluated /\ input.group = "map"
        /\ KindOf(Operand(input.tree.item)) \in {"Ident", "String", "Int"}) =>
        LET m == Operand(input.tree.obj)
            key == Operand(input.tree.item)
            hits == {i \in 1..Len(m.entries) : EqualKey(m.entries[i].key, key)}
        IN  IF hits = {} THEN output.res = Err("AccessError")
            ELSE \E i \in hits : output.res = m.entries[i].val

\* C29: subscripting a List of length n with an Int i gives the element at
\* position i when 0 <= i < n and AccessError for every other i, negative
\* ones included; it never crashes.
C29_ListSubscriptInBounds ==
    (Evaluated /\ input.group = "list" /\ KindOf(Operand(input.tree.item)) = "Int") =>
        LET list == Operand(input.tree.obj).v
            i == Operand(input.tree.item).v
        IN  IF 0 <= i /\ i < Len(list) THEN output.res = list[i + 1]
            ELSE output.res = Err("AccessError")

-----------------------------------------------------------------------------
(* Helper specification: GetMetadata on evaluated documents.                *)

\* ResultIs[T](res), kind being T's kind
ResultIs(kind, res) == IF KindOf(res) # kind THEN Err("TypeMismatch") ELSE res

\* GetKeyByIdent[T](mapping, key, required): an Error, the value, or None for
\* the zero value of an absent optional key.  The value is first asserted to
\* be of its own kind, which cannot fail, and then type-asserted to T: a
\* value of another kind panics.
GetKeyByIdent(kind, mapping, key, required) ==
    Only({IF res = None THEN (IF required THEN Err("MissingKey") ELSE None)
          ELSE IF KindOf(res) # kind THEN Err("Panic")
          ELSE res
          : res \in {MapGet(mapping, key, 0)}})

\* strings.SplitN(s, ".", 2) on bytes: s itself when it has no dot, else the
\* parts before and after the first dot
SplitN2(s) ==
    IF \A i \in 1..Len(s) : s[i] # 46 THEN <<s>>
    ELSE Only({<<SubSeq(s, 1, dot - 1), SubSeq(s, dot + 1, Len(s))>>
               : dot \in {CHOOSE i \in 1..Len(s) : s[i] = 46 /\ \A j \in 1..(i - 1) : s[j] # 46}})

\* the number that the bytes of decimal digits denote
RECURSIVE DecimalOf(_)
DecimalOf(d) == IF d = <<>> THEN 0 ELSE 10 * DecimalOf(SubSeq(d, 1, Len(d) - 1)) + (d[Len(d)] - 48)

\* strconv.Atoi(s): an optional sign and at least one decimal digit, [ok, val]
Atoi(s) ==
    Only({IF d # <<>> /\ \A i \in 1..Len(d) : d[i] \in 48..57
          THEN [ok |-> TRUE, val |-> IF s[1] = 45 THEN 0 - DecimalOf(d) ELSE DecimalOf(d)]
          ELSE [ok |-> FALSE, val |-> 0]
          : d \in {IF s # <<>> /\ s[1] \in {43, 45} THEN Tail(s) ELSE s}})

\* NewVersionFromString: split[1] is read whether the string had a dot or
\* not, so a string without one that starts with a number panics.
NewVersionFromString(version) ==
    Only({IF ~Atoi(split[1]).ok THEN Err("AtoiError")
          ELSE IF Len(split) < 2 THEN Err("Panic")
          ELSE IF ~Atoi(split[2]).ok THEN Err("AtoiError")
          ELSE [k |-> "Version", Major |-> Atoi(split[1]).val, Minor |-> Atoi(split[2]).val]
          : split \in {SplitN2(version)}})

\* The loop of parseMeta over the items of `mime` or `exts` (None when the
\* key is absent): an Error or the strings (tagged "Strings").
ItemStrings(list) ==
    IF list = None THEN [k |-> "Strings", v |-> <<>>]
    ELSE IF \E i \in 1..Len(list.v) : KindOf(list.v[i]) # "String" THEN Err("TypeMismatch")
    ELSE [k |-> "Strings", v |-> [i \in 1..Len(list.v) |-> list.v[i].v]]

Meta(version, name, mime, exts, text) ==
    [k |-> "Meta", Version |-> version, Name |-> name, Mime |-> mime, Exts |-> exts, Doc |-> text]

parseMeta(meta) ==
    IF KindOf(meta) # "Map" THEN Err("TypeMismatch")
    ELSE Only({
        IF IsErr(bdf) THEN bdf
        ELSE IF IsErr(version) THEN version
        ELSE IF IsErr(name) THEN name
        ELSE IF docRes # None /\ IsErr(docRes) THEN docRes
        ELSE IF mime # None /\ IsErr(mime) THEN mime
        ELSE IF IsErr(ItemStrings(mime)) THEN ItemStrings(mime)
        ELSE IF exts # None /\ IsErr(exts) THEN exts
        ELSE IF IsErr(ItemStrings(exts)) THEN ItemStrings(exts)
        ELSE Meta(version, name.v, ItemStrings(mime).v, ItemStrings(exts).v,
                  IF docRes = None THEN <<>> ELSE docRes.v)
      : bdf \in {GetKeyByIdent("String", meta, "bdf", TRUE)},
        version \in {IF KindOf(GetKeyByIdent("String", meta, "bdf", TRUE)) = "String"
                     THEN NewVersionFromString(GetKeyByIdent("String", meta, "bdf", TRUE).v)
                     ELSE None},
        name \in {GetKeyByIdent("String", meta, "name", TRUE)},
        docRes \in {GetKeyByIdent("String", meta, "docRes", FALSE)},
        mime \in {GetKeyByIdent("List", meta, "mime", FALSE)},
        exts \in {GetKeyByIdent("List", meta, "exts", FALSE)}})

GetMetadata(document) ==
    IF KindOf(document) # "Map" THEN Err("TypeMismatch")
    ELSE Only({IF IsErr(metaMap) THEN metaMap ELSE parseMeta(metaMap)
               : metaMap \in {GetKeyByIdent("Map", document, "meta", TRUE)}})

\* The strings tried for `bdf` have up to this many bytes.
MaxVerLen == 3

\* "1", "-", "." and "x"
VerBytes == {49, 45, 46, 120}

\* m with key bound to v, or m itself when v is None (the key is absent)
WithKey(m, key, v) == IF v = None THEN m ELSE MapV(Bind(m.v, key, v))

\* the values tried for a key that has to be a String, None for an absent key
Texts == <<None, StrV(<<102>>), IntV(1), LazyV(IdNode("x"))>>

\* the values tried for a key that has to be a List of Strings
TextLists ==
    <<None, ListV(<<StrV(<<97>>), StrV(<<98>>)>>), ListV(<<StrV(<<97>>), IntV(1)>>), StrV(<<97>>)>>

\* the values tried for `meta` besides a Map with the keys above
NoMetas == <<None, IntV(1), ListV(<<>>), StrV(<<109>>)>>

InitMeta ==
    /\ Idle
    /\ \/ \E bdf \in SeqsUpTo(VerBytes, MaxVerLen) :
            \E name, text \in 1..Len(Texts) : \E mime, exts \in 1..Len(TextLists) :
               input = [document |->
                          MapV(Bind(EmptyMap, "meta",
                             WithKey(WithKey(WithKey(WithKey(
                                 MapV(Bind(EmptyMap, "bdf", StrV(bdf))),
                                 "name", Texts[name]), "doc", Texts[text]),
                                 "mime", TextLists[mime]), "exts", TextLists[exts])))]
       \/ \E bdf \in 1..Len(Texts) : \E name \in 1..Len(Texts) :
               input = [document |->
                          MapV(Bind(EmptyMap, "meta",
                             WithKey(WithKey(MapV(EmptyMap), "bdf", Texts[bdf]),
                                     "name", Texts[name])))]
       \/ \E meta \in 1..Len(NoMetas) :
               input = [document |-> WithKey(MapV(Bind(EmptyMap, "binary", ListV(<<>>))),
                                             "meta", NoMetas[meta])]
    /\ output = None

GetMetadataStep ==
    /\ pc = "idle" /\ output = None /\ "document" \in DOMAIN input
    /\ output' = [res |-> GetMetadata(input.document)]
    /\ UNCHANGED <<applierVars, input>>

SpecMeta == InitMeta /\ [][GetMetadataStep]_vars

\* Is s a decimal integer: an optional sign and at least one digit?
IsInteger(s) ==
    /\ s # <<>>
    /\ \/ \A i \in 1..Len(s) : s[i] \in 48..57
       \/ s[1] \in {43, 45} /\ Len(s) > 1 /\ \A i \in 2..Len(s) : s[i] \in 48..57

\* Is s of the form MAJOR.MINOR: two integers separated by a dot?
IsMajorMinor(s) ==
    \E dot \in 1..Len(s) :
        /\ s[dot] = 46
        /\ IsInteger(SubSeq(s, 1, dot - 1))
        /\ IsInteger(SubSeq(s, dot + 1, Len(s)))

\* the value under key of the `meta` Map of the document, None when absent
MetaKey(key) == MapGet(MapGet(input.document, "meta", 0), key, 0)

IsString(x) == x # None /\ KindOf(x) = "String"

\* None (absent) or a List whose items are all Strings
IsStringList(x) ==
    x = None \/ (KindOf(x) = "List" /\ \A i \in 1..Len(x.v) : KindOf(x.v[i]) = "String")

HasMetaMap == MapGet(input.document, "meta", 0) # None
                /\ KindOf(MapGet(input.document, "meta", 0)) = "Map"

\* the cases in which C23 asks for an error
BadMeta ==
    \/ ~HasMetaMap
    \/ ~IsString(MetaKey("bdf")) \/ ~IsString(MetaKey("name"))
    \/ ~IsMajorMinor(MetaKey("bdf").v)
    \/ ~IsStringList(MetaKey("mime")) \/ ~IsStringList(MetaKey("exts"))

\* C23: GetMetadata returns the Meta when `meta` is a Map with a String bdf
\* of the form MAJOR.MINOR and a String name (doc a String, mime and exts
\* lists of Strings where present), and returns an error, without crashing,
\* when meta is missing or no Map, bdf or name is missing or no String, bdf
\* is not two integers separated by a dot, or mime or exts is no list of
\* Strings.
C23_GetMetadataOrError ==
    (output # None /\ "document" \in DOMAIN input) =>
        IF BadMeta THEN IsErr(output.res) /\ output.res.kind # "Panic"
        ELSE (MetaKey("doc") = None \/ IsString(MetaKey("doc"))) =>
                /\ output.res.k = "Meta"
                /\ output.res.Name = MetaKey("name").v
                /\ output.res.Version = NewVersionFromString(MetaKey("bdf").v)

-----------------------------------------------------------------------------
(* Two runs of ApplyBDF over one evaluated document (specification          *)
(* SpecShare).  A MapResult is a Go map, a reference: ns[ident] = typeRes    *)
(* puts the document's own Map of a `types` entry in the namespace, and      *)
(* processType writes `pos` into whatever Map the namespace holds under      *)
(* `file`.  The document is therefore part of the state: output.document is  *)
(* the document as the heap holds it, and the namespace entry `file` of a    *)
(* run is read from it and written back to it whenever it is that Map.       *)

\* a field read at the position the namespace holds under file.pos
DocAtFilePos ==
    Doc(<<>>,
        <<Field([id |-> "a", type |-> T("uint8")]),
          Field([id |-> "b", type |-> T("uint8"), at |-> LazyV(Attr(Id("file"), "pos"))])>>)

\* the same fields, a type being declared under the id `file`
DocTypeIdFileAt ==
    Doc(<<Field([id |-> "file", type |-> T("uint8")])>>, DocAtFilePos.binary)

\* a declared type that is not called `file`
DocTypeUsed ==
    Doc(<<Field([id |-> "t", type |-> T("uint8")])>>,
        <<Field([id |-> "a", type |-> LazyV(Id("t"))]),
          Field([id |-> "p", type |-> T("var"), value |-> LazyV(Attr(Id("file"), "pos"))])>>)

SharedDocuments == <<DocAtFilePos, DocTypeIdFileAt, DocTypeIdFile, DocTypeUsed>>

SharedFiles == SeqsUpTo({1, 2}, MaxFileLen)

\* The index of the entry of `types` that ns["file"] is after the loop over
\* the types (the last one whose id is `file`), 0 when there is none.
FileType(document) ==
    IF \E i \in 1..Len(document.types) : document.types[i].id = "file"
    THEN CHOOSE i \in 1..Len(document.types) :
            /\ document.types[i].id = "file"
            /\ \A j \in (i + 1)..Len(document.types) : document.types[j].id # "file"
    ELSE 0

\* One run of ApplyBDF: where it is, the index of its loop, its namespace and
\* position in its file, its contents and the error it returned.
Run(at, i, st, pairs, err) == [pc |-> at, idx |-> i, st |-> st, pairs |-> pairs, err |-> err]

\* ApplyBDF up to its loop, over the document as it is.
ApplyStart(document) ==
    Only({
        IF typed.err # None
        THEN Run("done", 0, State(0, EmptyMap, 0, 0), <<>>, Wrapped(typed.err, -1))
        ELSE IF ~document.hasBinary
        THEN Run("done", 0, State(0, typed.ns, 0, 0), <<>>, Wrapped(Err("MissingKey"), -1))
        ELSE Run("loop", 1, State(0, typed.ns, 0, 0), <<>>, None)
      : typed \in {BindTypes(document.types, 1, Bind(EmptyMap, "file", FileRef))}})

\* One iteration of ApplyBDF's loop over `binary` (or its return when the
\* loop is over).  The run is at "forever" from the moment processType is in
\* an array whose loop does not end (see ArrayLoop).
ApplyField(run, document, bytes, ord) ==
    IF run.idx > Len(document.binary) THEN [run EXCEPT !.pc = "done"]
    ELSE Only({
        IF formatType = Skipped THEN [run EXCEPT !.idx = @ + 1]
        ELSE IF IsErr(formatType)
        THEN [run EXCEPT !.pc = "done", !.pairs = <<>>,
                         !.err = Wrapped(formatType, run.idx - 1)]
        ELSE Only({
            IF r.err # None /\ r.err.kind = "Diverged"
            THEN [run EXCEPT !.pc = "forever", !.st = State(r.st.off, r.st.ns, r.st.fp, 0)]
            ELSE IF r.err # None
            THEN [run EXCEPT !.pc = "done", !.pairs = <<>>,
                             !.st = State(r.st.off, r.st.ns, r.st.fp, 0),
                             !.err = IF r.err.kind = "Magic" THEN Unwrapped(r.err)
                                     ELSE Wrapped(r.err, run.idx - 1)]
            ELSE [run EXCEPT !.idx = @ + 1,
                             !.st = State(r.st.off, r.st.ns, r.st.fp, 0),
                             !.pairs = IF formatType.Name # "" \/ formatType.Id # ""
                                       THEN Append(@, MetaPair(formatType, r.val))
                                       ELSE @]
          : r \in {processType(formatType, run.st, bytes, ord)}})
      : formatType \in {ParseFormatType(document.binary[run.idx], run.st, None, ord)}})

\* A run of ApplyBDF by itself, from run on.
RECURSIVE ApplyAlone(_, _, _, _)
ApplyAlone(run, document, bytes, ord) ==
    IF run.pc # "loop" THEN run
    ELSE ApplyAlone(ApplyField(run, document, bytes, ord), document, bytes, ord)

\* ApplyBDF(document, file), nothing else using the document
ApplyBDF(document, bytes, ord) == ApplyAlone(ApplyStart(document), document, bytes, ord)

\* The namespace of a run as the heap has it: its entry `file` is the Map of
\* the document when the loop over the types left it there.
Refreshed(run, document) ==
    IF run.pc = "loop" /\ FileType(document) # 0
    THEN [run EXCEPT !.st.ns = Bind(@, "file", document.types[FileType(document)])]
    ELSE run

\* The document after a run's step: what the run wrote into the Map it holds
\* under `file` is in the document when that Map is the document's.
Written(run, document) ==
    IF run.st.ns # EmptyMap /\ FileType(document) # 0
    THEN [document EXCEPT !.types[FileType(document)] = run.st.ns["file"]]
    ELSE document

InitShare ==
    /\ Idle
    /\ \E d \in 1..Len(SharedDocuments) : \E f1, f2 \in SharedFiles :
          /\ input = [shared |-> SharedDocuments[d], files |-> <<f1, f2>>]
          /\ output = [document |-> SharedDocuments[d],
                       runs |-> [i \in 1..2 |-> Run("start", 0, State(0, EmptyMap, 0, 0),
                                                    <<>>, None)]]

\* run i enters ApplyBDF
ShareBegin ==
    /\ pc = "idle" /\ "shared" \in DOMAIN input
    /\ \E i \in 1..2 :
          /\ output.runs[i].pc = "start"
          /\ output' = [output EXCEPT !.runs[i] = ApplyStart(output.document)]
    /\ UNCHANGED <<applierVars, input>>

\* run i does one iteration of its loop
ShareField ==
    /\ pc = "idle" /\ "shared" \in DOMAIN input
    /\ \E i \in 1..2 :
          /\ output.runs[i].pc = "loop"
          /\ \E after \in {ApplyField(Refreshed(output.runs[i], output.document),
                                      output.document, input.files[i], "fwd")} :
                output' = [document |-> Written(after, output.document),
                           runs |-> [output.runs EXCEPT ![i] = after]]
    /\ UNCHANGED <<applierVars, input>>

SpecShare == InitShare /\ [][ShareBegin \/ ShareField]_vars

\* what a run returns, as (error kind, index) and the (id, value) pairs
Outcome(run) ==
    <<IF run.err = None THEN <<"", 0>> ELSE <<run.err.cause.kind, run.err.index>>,
      PairView(run.pairs)>>

\* C24: ApplyBDF does not modify the evaluated document, so that two runs
\* over one document, each on its own file and interleaved in any way,
\* return what they return alone.
C24_SharedDocumentUntouched ==
    "shared" \in DOMAIN input =>
        /\ output.document = input.shared
        /\ \A i \in 1..2 :
              output.runs[i].pc = "done" =>
                  Outcome(output.runs[i]) = Outcome(ApplyBDF(input.shared, input.files[i], "fwd"))

-----------------------------------------------------------------------------
(* One run of ApplyBDF over documents that read arrays, fields wider than   *)
(* what is left of the file and multi-byte numbers (specification           *)
(* SpecApply).                                                               *)

ArrayEos(item) == Field([id |-> "items", type |-> TypeV("array", IdentV("eos")), item |-> item])

\* array[eos] without `while`: uint8 items, then items that consume no byte
\* (a var, a byte[0]) and an item that seeks to the start before it reads
ArrayDocuments ==
    <<Doc(<<>>, <<ArrayEos(Field([type |-> T("uint8")]))>>),
      Doc(<<>>, <<ArrayEos(Field([type |-> T("var"), value |-> IntV(1)]))>>),
      Doc(<<>>, <<ArrayEos(Field([type |-> ByteN(0)]))>>),
      Doc(<<>>, <<ArrayEos(Field([type |-> T("uint8"), at |-> IntV(0)]))>>),
      Doc(<<>>, <<Field([id |-> "a", type |-> T("uint8")]),
                  ArrayEos(Field([id |-> "v", type |-> T("var"),
                                  value |-> LazyV(Attr(Id("file"), "pos"))]))>>)>>

ApplyFiles == SeqsUpTo({1, 2}, MaxFileLen)

Applied(group, document, bytes) == [group |-> group, document |-> document, bytes |-> bytes]

\* The fixed-width types and the number of bytes each one reads.
FixedWidth ==
    <<[type |-> T("uint8"), width |-> 1], [type |-> T("int16"), width |-> 2],
      [type |-> T("uint24"), width |-> 3], [type |-> T("uint32"), width |-> 4],
      [type |-> T("float32"), width |-> 4], [type |-> ByteN(1), width |-> 1],
      [type |-> ByteN(2), width |-> 2], [type |-> ByteN(3), width |-> 3]>>

FixedField(i, endian) == Field([id |-> "x", type |-> FixedWidth[i].type, endian |-> endian])

\* the field by itself (item FALSE) or as the item of an array[eos]
FixedDocument(i, endian, item) ==
    Doc(<<>>, <<IF item THEN ArrayEos(FixedField(i, endian)) ELSE FixedField(i, endian)>>)

\* a member that every uint16 is in
AllUint16 ==
    [id |-> "ALL", value |-> MapV([x \in {"from", "to"} |-> IF x = "from" THEN IntV(0) ELSE IntV(65535)])]

Uint16Shapes == <<"own", "nested", "declared", "enum">>

\* The field x of two bytes, `inner` being the endian written next to it:
\* a uint16, a uint16 in a struct of its own, a field of the declared type
\* t, an enum over uint16.
Uint16Field(shape, inner) ==
    CASE shape = "own" -> Field([id |-> "x", type |-> T("uint16"), endian |-> inner])
      [] shape = "nested" ->
            Field([id |-> "n", type |-> T("struct"), endian |-> inner,
                   fields |-> ListV(<<Field([id |-> "x", type |-> T("uint16")])>>)])
      [] shape = "declared" -> Field([id |-> "x", type |-> LazyV(Id("t")), endian |-> inner])
      [] shape = "enum" ->
            Field([id |-> "x", type |-> TypeV("enum", T("uint16")), endian |-> inner,
                   members |-> ListV(<<Member(AllUint16)>>)])

\* types: [{id: t, type: uint16}], binary: [{id: s, type: struct, endian:
\* outer, fields: [the field x]}]
EndianDocument(shape, outer, inner) ==
    Doc(<<Field([id |-> "t", type |-> T("uint16")])>>,
        <<Field([id |-> "s", type |-> T("struct"), endian |-> outer,
                 fields |-> ListV(<<Uint16Field(shape, inner)>>)])>>)

InitApply ==
    /\ Idle
    /\ \/ \E d \in 1..Len(ArrayDocuments) : \E f \in ApplyFiles :
            input = Applied("array", ArrayDocuments[d], f)
       \/ \E i \in 1..Len(FixedWidth) : \E endian \in {"little", "big"} :
            \E item \in BOOLEAN : \E f \in ApplyFiles :
                input = Applied("short", FixedDocument(i, endian, item), f)
                            @@ [width |-> FixedWidth[i].width, item |-> item]
       \/ \E i \in 1..Len(Uint16Shapes) : \E outer \in {"little", "big"} :
            \E inner \in {"", "little", "big", "middle"} :
                \E f \in {g \in ApplyFiles : Len(g) >= 2} :
                    input = Applied("endian", EndianDocument(Uint16Shapes[i], outer, inner), f)
                                @@ [shape |-> Uint16Shapes[i], outer |-> outer, inner |-> inner]
    /\ output = None

\* bindef.ApplyBDF(document, file)
ApplyBDFStep ==
    /\ pc = "idle" /\ output = None /\ "bytes" \in DOMAIN input
    /\ output' = [run |-> ApplyBDF(input.document, input.bytes, "fwd")]
    /\ UNCHANGED <<applierVars, input>>

SpecApply == InitApply /\ [][ApplyBDFStep]_vars

ApplyDone == output # None /\ "bytes" \in DOMAIN input

\* C25: every run of ApplyBDF over a finite file terminates, the runs over
\* an array[eos] without `while` whose item consumes no byte or seeks back
\* before every read included.
C25_ApplyBDFTerminates ==
    (ApplyDone /\ input.group = "array") => output.run.pc = "done"

\* C26: a fixed-width field that finds fewer bytes than its width before the
\* end of the file yields no value: by itself it fails with an error, as
\* the item of an array[eos] it fails or ends the array, which then holds the
\* whole items only.
C26_NoValueFromPartialRead ==
    (ApplyDone /\ input.group = "short") =>
        /\ output.run.pc = "done"
        /\ IF input.item
           THEN \/ output.run.err # None
                \/ Len(output.run.pairs[1].Value.v) = Len(input.bytes) \div input.width
           ELSE Len(input.bytes) < input.width => output.run.err # None

\* the endian the field x is to be read in: its own, else its struct's
Resolved == IF input.inner # "" THEN input.inner ELSE input.outer

\* the first two bytes of the file as a number
FirstTwo(endian) ==
    IF endian = "big" THEN input.bytes[1] * 256 + input.bytes[2]
    ELSE input.bytes[2] * 256 + input.bytes[1]

\* the value of x in what the run returned
ValueOfX ==
    IF input.shape = "nested" THEN output.run.pairs[1].Value.v["n"].v["x"]
    ELSE output.run.pairs[1].Value.v["x"]

\* C27: a multi-byte numeric field of a struct (a field of a nested struct,
\* a field whose type is a declared entry of `types` and an enum over a
\* multi-byte type included) is read in its own endian when it has one and in
\* that of the enclosing struct otherwise; an endian that is neither
\* "little" nor "big" is an error before any byte is read.
C27_EndianOwnElseEnclosing ==
    (ApplyDone /\ input.group = "endian") =>
        /\ output.run.pc = "done"
        /\ IF Resolved \in {"little", "big"}
           THEN /\ output.run.err = None
                /\ ValueOfX = IntV(FirstTwo(Resolved))
           ELSE /\ output.run.err # None
                /\ output.run.st.off = 0

-----------------------------------------------------------------------------
(* LexString over string literals of every shape (specification SpecLex).   *)

\* A literal is an opening double quote and at most this many characters.
MaxStrLen == 4

StrAlphabet == {"\"", BSL, "x", "1", "8", "a"}

InitLex ==
    /\ Idle
    /\ \E body \in SeqsUpTo(StrAlphabet, MaxStrLen) :
         \E cap \in {Len(body) + 1, Len(body) + 3} :
            input = [literal |-> <<"\"">> \o body, cap |-> cap]
    /\ output = None

\* lx.LexString('"') with the scanner at the opening quote
LexStringStep ==
    /\ pc = "idle" /\ output = None /\ "literal" \in DOMAIN input
    /\ \E tok \in {LexString(input.literal, input.cap, 0, "\"")} :
          output' = [tok |-> tok, k |-> IF "Kind" \in DOMAIN tok THEN "Token" ELSE tok.k]
    /\ UNCHANGED <<applierVars, input>>

SpecLex == InitLex /\ [][LexStringStep]_vars

StringLexed == output # None /\ "literal" \in DOMAIN input

IsHexDigit(ch) == DigitVal(ch, 16) >= 0

IsOctDigit(ch) == DigitVal(ch, 8) >= 0

\* Is the literal malformed from position cur on: not closed, ending in a
\* backslash, with \x and fewer than two hex digits or with a backslash, a
\* digit and fewer than three octal digits?  (An escape of another unknown
\* character ends the scan: it is none of these.)
RECURSIVE Malformed(_, _)
Malformed(src, cur) ==
    IF cur >= Len(src) THEN TRUE
    ELSE IF src[cur + 1] = "\"" THEN FALSE
    ELSE IF src[cur + 1] # BSL THEN Malformed(src, cur + 1)
    ELSE IF cur + 1 >= Len(src) THEN TRUE
    ELSE IF src[cur + 2] \in DOMAIN escapeMap THEN Malformed(src, cur + 2)
    ELSE IF src[cur + 2] = "x"
    THEN IF cur + 4 <= Len(src) /\ IsHexDigit(src[cur + 3]) /\ IsHexDigit(src[cur + 4])
         THEN Malformed(src, cur + 4) ELSE TRUE
    ELSE IF IsASCIIDigit(src[cur + 2])
    THEN IF cur + 4 <= Len(src) /\ \A i \in 2..4 : IsOctDigit(src[cur + i])
         THEN Malformed(src, cur + 4) ELSE TRUE
    ELSE FALSE

\* C30: for a string literal that is not closed, ends in a backslash, has a
\* \x with fewer than two hex digits or an octal escape with fewer than three
\* octal digits, LexString returns a SyntaxError; the lexer never crashes on
\* a read beyond the source and the span of its error is inside the source.
C30_MalformedStringIsSyntaxError ==
    StringLexed =>
        /\ output.k # "Panic"
        /\ output.k = "LangError" =>
              /\ 0 <= output.tok.Start /\ output.tok.Start <= output.tok.End
              /\ output.tok.End <= Len(input.literal)
        /\ Malformed(input.literal, 1) => output.k = "LangError"

====
